---------------------------- MODULE Spec2Model ----------------------------
(***************************************************************************)
(* Model of the edgenet controllers' reconciliation engine                 *)
(* (pkg/controller/v1alpha/project/controller.go; the authority controller *)
(* has the same run / runWorker / processNextItem).                        *)
(*                                                                         *)
(* Goroutines of one controller process:                                   *)
(*   - main: Start registers the informer callbacks, starts run, waits for *)
(*     SIGTERM/SIGINT, closes stopCh and returns; main then returns, which *)
(*     ends the process.                                                   *)
(*   - run: handler.Init, starts the informer, WaitForCacheSync, starts    *)
(*     the worker, waits for stopCh; its deferred queue.ShutDown runs when *)
(*     it returns.                                                         *)
(*   - the informer: keeps the indexer (cacheObj) and calls                *)
(*     AddFunc/UpdateFunc/DeleteFunc one at a time; it stops when stopCh   *)
(*     is closed.  The store change and its callback are one step.         *)
(*   - the worker(s): wait.Until(runWorker): processNextItem in a loop.    *)
(*                                                                         *)
(* The work queue is client-go's rate-limiting workqueue, modelled by what *)
(* its operations do: queue (FIFO of items to hand out), dirty (items that *)
(* need processing), processing (items handed out and not yet Done),       *)
(* shuttingDown, waitingForAdd (items of AddAfter whose delay has not      *)
(* elapsed) and the rate limiter's failure count per item.                 *)
(***************************************************************************)
EXTENDS Integers, Sequences, FiniteSets, TLC

\* ------------------------------------------------------------- bounds --
\* Informer notifications (AddFunc/UpdateFunc/DeleteFunc calls) in Spec:
\* two object keys, every object value.
MaxNotifs == 2
\* Notifications in SpecOneKey: one object key, every object value.
MaxOneKey == 3
\* Notifications in SpecRedeliver: one object key, one object value.
MaxRedeliver == 6

\* Invocations of the node labeler's handler in one behaviour.
MaxGeoCalls == 2

\* Invocations of the team handler, and writes to the API server made by
\* others, in one behaviour.
MaxTeamCalls == 2

MaxExternal == 2

\* Invocations of the team handler by its controller's engine, in one
\* behaviour.
MaxEngineCalls == 8

\* Changes of the node inventory or of a node's geolocation, and passes of
\* the selective deployment's reconciliation, in one behaviour.
MaxSelChanges == 1

MaxSelPasses == 2

\* ---------------------------------------------------- program constants --
\* controller.go:224  c.queue.NumRequeues(key) < 5
RetryBudget == 5

\* controller.go:63-65
create == "create"
update == "update"
delete == "delete"

\* Object keys (namespace/name) and the workers' identities.
Keys == {"ns/a", "ns/b"}

\* controller.go:194 starts exactly one worker goroutine.
NumWorkers == 1

Workers == 1..NumWorkers

\* A Project object as far as the controller reads it: Status.Enabled and
\* Spec.Users (abstracted to a version 0/1).  Nil is the nil interface.
Nil == [present |-> FALSE, enabled |-> FALSE, users |-> 0]

Objects == [present : {TRUE}, enabled : BOOLEAN, users : {0, 1}]

\* controller.go:57-60  type fields struct { users bool; enabled bool }
NoFields == [users |-> FALSE, enabled |-> FALSE]

\* controller.go:50-54  type informerevent; typ is the dynamic type of the
\* value held by the queue's interface{} item.
ZeroEvent == [typ |-> "informerevent", key |-> "", function |-> "", updated |-> NoFields]

\* The item that AddRateLimited(event.key) puts in the queue: a string.
KeyItem(k) == [typ |-> "string", key |-> k, function |-> "", updated |-> NoFields]

NoItem == [typ |-> "none", key |-> "", function |-> "", updated |-> NoFields]

NoCall == [fn |-> "none", key |-> "", obj |-> Nil, updated |-> NoFields, lookupErr |-> FALSE]

NoOutcome == [res |-> "none", item |-> NoItem]

\* ------------------------------------------- the node labeler: values --
\* part_001:36  the nodes handed to SetNodeGeolocation: a name and what
\* node.GetNodeIPAddresses finds in the node's status, "" when the node has
\* no address of that kind.
NodeNames == {"node-1", "node-2"}

InternalIPs == {"", "10.0.0.1"}

ExternalIPs == {"", "192.0.2.1"}

Nodes == [name : NodeNames, internalIP : InternalIPs, externalIP : ExternalIPs]

NoNode == [name |-> "", internalIP |-> "", externalIP |-> ""]

\* One call of node.GetGeolocationByIP: the kind of address it was given,
\* the address, and whether it located the node.
Lookup(kind, ip, ok) == [kind |-> kind, ip |-> ip, ok |-> ok]

\* -------------------------------------------- the team handler: values --
\* The team the handler is invoked for, the namespace it lives in and the
\* authority-name label of that namespace (handler.go:96-97).
TeamNamespace == "authority-a"

TeamName == "t1"

AuthorityName == "a"

\* apps_v1alpha.Team as far as the handler reads or writes it: namespace and
\* name, metadata.resourceVersion (rv), metadata.generation, Spec.Users (user
\* names; every participant is of the authority AuthorityName),
\* Status.Enabled and metadata.ownerReferences (owners).
\* ZeroTeam is &Team{}: also what the clientset's Update returns next to an
\* error.
ZeroTeam == [ns |-> "", name |-> "", rv |-> 0, generation |-> 0, users |-> <<>>,
             enabled |-> FALSE, owners |-> <<>>]

\* handler.go:206-208, 213-215  metav1.NewControllerRef(...) with Controller
\* set to &takeControl, takeControl being false.
OwnerRef(kind, name) == [kind |-> kind, name |-> name, controller |-> FALSE]

\* The users the API server holds in the namespace authority-a: Status.Active,
\* Status.AUP and Spec.Roles.  Getting another user ("dave") fails.
UserNames == {"alice", "bob", "carol", "erin"}

UserDB ==
    [u \in UserNames |->
        CASE u = "alice" -> [active |-> TRUE, aup |-> TRUE, roles |-> <<"User">>]
          [] u = "bob"   -> [active |-> TRUE, aup |-> FALSE, roles |-> <<"admin">>]
          [] u = "carol" -> [active |-> TRUE, aup |-> TRUE, roles |-> <<"User">>]
          [] u = "erin"  -> [active |-> TRUE, aup |-> TRUE, roles |-> <<"Manager">>]]

\* The values of Spec.Users that are written by the team's users.
UserLists == {<<"carol", "bob", "alice">>, <<"dave", "alice">>}

\* A role binding of the child namespace for bob, who has not accepted the
\* AUP.
StrayRoleBinding == [ns |-> "authority-a-team-t1", user |-> "bob"]

\* No write request yet; a write request of the handler: the call, the
\* namespace and name it addresses, whether the API server applied it, and
\* whether what it sends was taken from the result of a failed Update.
Request(op, ns, name, applied, fromFailed) ==
    [op |-> op, ns |-> ns, name |-> name, applied |-> applied,
     fromFailed |-> fromFailed]

NoLocals == [authorityName |-> "", nsOwners |-> <<>>, deferNs |-> "",
             updateFailed |-> FALSE, fresh |-> FALSE, fn |-> "",
             updated |-> NoFields, authEnabled |-> FALSE, readsOk |-> FALSE,
             childExisted |-> FALSE, apiFailed |-> FALSE]

\* ------------------------------------- the selective deployment: values --
\* The node identifiers, in ascending order.
NodeOrder == <<"node-a", "node-b", "node-c", "node-d">>

SelNodes == {NodeOrder[i] : i \in 1..Len(NodeOrder)}

\* The city of a node's geolocation, "" for a node without geolocation.
Cities == {"", "paris", "lyon"}

\* selectivedeployment.yaml:84-88  spec.selector.operator
Operators == {"In", "NotIn"}

\* selectivedeployment.yaml:89-92  spec.selector.count: 0 means no
\* limitation.
Counts == {0, 1, 2}

\* selectivedeployment.yaml:77-93  one item of spec.selector, for the region
\* type City.
Clauses == [value : {"Paris", "lyon"}, operator : Operators, count : Counts]

\* spec.selector: one clause, or a clause for Paris followed by one for
\* Lyon.
ClauseLists ==
    {<<c>> : c \in Clauses}
    \cup {p \in {<<c, d>> : c \in Clauses, d \in Clauses} :
             p[1].value = "Paris" /\ p[2].value = "lyon"}

\* selectivedeployment.yaml:55-68  spec.controller: the target controllers
\* of the selective deployment (helloWorld.yaml:25-27 names one DaemonSet).
TargetControllers == {"DaemonSet/hello-world-new", "Deployment/hello-world"}

\* The target controllers that exist: both, or the DaemonSet alone.
ExistingControllers == {TargetControllers, {"DaemonSet/hello-world-new"}}

\* The placement of a controller that no selective deployment has pinned.
Unpinned == <<"unpinned">>

VARIABLES
    cacheObj,      \* informer indexer: key -> object or Nil
    synced,        \* informer.HasSynced()
    event,         \* Start's `var event informerevent`, shared by the callbacks
    wq,            \* the work queue (record, see InitQueue)
    runPc,         \* run goroutine: "start", "waitSync", "waitStop", "done"
    stopped,       \* stopCh is closed
    procState,     \* "running", "exited" (main returned), "crashed" (panic)
    workerPc,      \* per worker: "notStarted", "spawned", "idle", "got",
                   \*             "handling", "finished"
    cur,           \* per worker: the item returned by queue.Get
    call,          \* per worker: the handler invocation in progress
    outcome,       \* per worker: how its latest finished pass ended
    seen,          \* history, per worker: the object the callback that
                   \*   enqueued cur had observed
    nNotifs,       \* history: informer callbacks so far (= calls of queue.Add)
    nEffAdds,      \* history: queue.Add calls that marked an item dirty
    nTaken,        \* history: informerevent items handed to a worker
    pending,       \* history: dirty informerevents in queue.Add order, each
                   \*   with the object its callback observed
    readded,       \* history: dirty items whose Add found them in processing
    retries,       \* history: per key, consecutive AddRateLimited calls
    tookAfterStop  \* history: a worker took an item after stopCh was closed

\* The node labeler's handler (package nodelabeler).
VARIABLES
    geoPc,         \* SetNodeGeolocation: "idle", "external", "internal",
                   \*   "returned"
    geoNode,       \* its argument obj: name and the two addresses
    geoResult,     \* its local variable result
    geoLookups,    \* history: the GetGeolocationByIP calls of this invocation
    geoLabel,      \* per node name, the address kind that located the node
    geoBefore,     \* history: geoLabel of the node when the invocation began
    nGeoCalls      \* history: invocations so far

ctlVars == <<cacheObj, synced, event, wq, runPc, stopped, procState, workerPc,
             cur, call, outcome, seen, nNotifs, nEffAdds, nTaken, pending,
             readded, retries, tookAfterStop>>

geoVars == <<geoPc, geoNode, geoResult, geoLookups, geoLabel, geoBefore,
             nGeoCalls>>

\* The team handler (package team) and the API server it talks to.
VARIABLES
    srvTeam,        \* API server: the team authority-a/t1, ZeroTeam if none
    srvAuthEnabled, \* API server: Status.Enabled of the authority a
    srvNamespaces,  \* API server: the namespaces besides authority-a
    srvRoleBindings,\* API server: role bindings, as [ns, user]
    srvSlices,      \* API server: namespaces that hold slices
    teamCache,      \* the informer's copy of the team, given to the handler
    teamPc,         \* the handler's position, "idle" between invocations
    teamCopy,       \* the handler's local teamCopy
    teamLocals,     \* the handler's other locals, and history: the
                    \*   invocation's method and change summary, whether its
                    \*   Update failed, whether obj was current, whether the
                    \*   authority was enabled and the reads succeeded,
                    \*   whether the child namespace existed when it was
                    \*   called,
                    \*   whether the API server was unable to serve one of
                    \*   its write requests
    teamReqs,       \* history: the write requests of this invocation
    teamRetry,      \* history: "no"; "due" after an Update that a stale obj
                    \*   made fail; "missed" when a later invocation with a
                    \*   current obj returned without an Update
    nTeamCalls,     \* history: invocations so far
    nExternal       \* history: writes by others so far

\* The reconciliation engine of the team controller.
VARIABLES
    teamEngine,     \* TRUE: the handler is called by the engine, for the
                    \*   events of its work queue; FALSE: it is called with
                    \*   any event at any time
    teamWatch,      \* the versions of the team that the API server has
                    \*   stored and the informer has not received yet
    teamEvent,      \* Start's `var event informerevent`
    teamWq,         \* the work queue (record, see InitQueue)
    teamCur         \* the item that the worker is processing, ZeroEvent
                    \*   when it is waiting for one

srvVars == <<srvTeam, srvAuthEnabled, srvNamespaces, srvRoleBindings, srvSlices>>

engineVars == <<teamWatch, teamEvent, teamWq, teamCur>>

teamVars == <<srvVars, teamCache, teamPc, teamCopy, teamLocals, teamReqs,
              teamRetry, nTeamCalls, nExternal, teamEngine, engineVars>>

\* The selective deployment's handler: node selection and workload pinning.
VARIABLES
    selInventory,   \* the nodes currently known
    selGeo,         \* per node, the city of its geolocation
    selClauses,     \* spec.selector of the selective deployment, <<>> if none
    selExisting,    \* the target controllers that exist
    selStored,      \* per target controller, the placement stored on it
    selCands,       \* latest pass: per clause, its candidates
    selTarget,      \* latest pass: the target node set
    selWrites,      \* latest pass: the target controllers written
    selStatus,      \* latest pass: per target controller, the result
    selPrevTarget,  \* history: the target node set of the pass before
    selRepeat,      \* history: nothing changed between the latest pass and
                    \*   the pass before
    selChanged,     \* history: something changed since the latest pass
    nSelChanges,    \* history: changes of nodes so far
    nSelPasses      \* history: passes so far

selVars == <<selInventory, selGeo, selClauses, selExisting, selStored, selCands,
             selTarget, selWrites, selStatus, selPrevTarget, selRepeat,
             selChanged, nSelChanges, nSelPasses>>

handlerVars == <<geoVars, teamVars, selVars>>

vars == <<ctlVars, handlerVars>>

\* ------------------------------------------------------- the work queue --
InitQueue ==
    [queue |-> <<>>, dirty |-> {}, processing |-> {}, shuttingDown |-> FALSE,
     waitingForAdd |-> {}, failures |-> [k \in Keys |-> 0]]

\* An Add that queues the item again although it is already waiting.
QueueAdd_NoDedup(q, item) ==
    IF q.shuttingDown THEN q
    ELSE [q EXCEPT !.dirty = @ \cup {item}, !.queue = Append(@, item)]

\* An Add that puts the item at the front of the queue.
QueueAdd_Front(q, item) ==
    IF q.shuttingDown \/ item \in q.dirty THEN q
    ELSE IF item \in q.processing THEN [q EXCEPT !.dirty = @ \cup {item}]
    ELSE [q EXCEPT !.dirty = @ \cup {item}, !.queue = <<item>> \o @]

\* workqueue.Type.Add: ignored when shutting down or already dirty; an item
\* being processed is only marked dirty (Done re-queues it).
QueueAdd(q, item) ==
    IF q.shuttingDown \/ item \in q.dirty THEN q
    ELSE IF item \in q.processing THEN [q EXCEPT !.dirty = @ \cup {item}]
    ELSE [q EXCEPT !.dirty = @ \cup {item}, !.queue = Append(@, item)]

\* workqueue.Type.Get when the queue is not empty: hand out the head.
QueueGet(q) ==
    [q EXCEPT !.queue = Tail(@),
              !.processing = @ \cup {Head(q.queue)},
              !.dirty = @ \ {Head(q.queue)}]

\* A Done that queues the item again in every case.
QueueDone_Requeue(q, item) ==
    [q EXCEPT !.processing = @ \ {item}, !.queue = Append(@, item)]

\* workqueue.Type.Done: re-queue the item if it was added while processed.
QueueDone(q, item) ==
    IF item \in q.dirty
    THEN [q EXCEPT !.processing = @ \ {item}, !.queue = Append(@, item)]
    ELSE [q EXCEPT !.processing = @ \ {item}]

\* rateLimitingType.AddRateLimited: AddAfter(item, rateLimiter.When(item));
\* When counts a failure of the item, the delay is always positive, so the
\* item waits in waitingForAdd until its timer fires.
QueueAddRateLimited(q, k) ==
    IF q.shuttingDown
    THEN [q EXCEPT !.failures[k] = @ + 1]
    ELSE [q EXCEPT !.failures[k] = @ + 1, !.waitingForAdd = @ \cup {KeyItem(k)}]

\* rateLimitingType.Forget / NumRequeues of the string key.
QueueForget(q, k) == [q EXCEPT !.failures[k] = 0]

NumRequeues(q, k) == q.failures[k]

QueueShutDown(q) == [q EXCEPT !.shuttingDown = TRUE]

\* ------------------------------------------------- informer callbacks --
\* controller.go:93-102: key and function are overwritten, `updated` is left
\* as the previous callback set it.
AddFunc(ev, k) == [ev EXCEPT !.key = k, !.function = create]

\* An UpdateFunc without the two resets of lines 107-108.
UpdateFunc_NoReset(ev, k, old, new) ==
    LET e1 == [ev EXCEPT !.key = k, !.function = update]
        e3 == IF old.enabled # new.enabled THEN [e1 EXCEPT !.updated.enabled = TRUE] ELSE e1
        e4 == IF old.users # new.users THEN [e3 EXCEPT !.updated.users = TRUE] ELSE e3
    IN e4

\* controller.go:103-119
UpdateFunc(ev, k, old, new) ==
    LET e1 == [ev EXCEPT !.key = k, !.function = update]
        e2 == [e1 EXCEPT !.updated = NoFields]
        e3 == IF old.enabled # new.enabled THEN [e2 EXCEPT !.updated.enabled = TRUE] ELSE e2
        e4 == IF old.users # new.users THEN [e3 EXCEPT !.updated.users = TRUE] ELSE e3
    IN e4

\* controller.go:120-129
DeleteFunc(ev, k) == [ev EXCEPT !.key = k, !.function = delete]


\* ------------------------------------------------------------ helpers --
IsEvent(item) == item.typ = "informerevent"

\* Index of the first entry of the history `pending` that holds `item`
\* (0 when there is none).
PendingIndex(item) ==
    IF \E i \in 1..Len(pending) : pending[i].item = item
    THEN CHOOSE i \in 1..Len(pending) :
            /\ pending[i].item = item
            /\ \A j \in 1..(i - 1) : pending[j].item # item
    ELSE 0

RemoveAt(s, i) == [j \in 1..(Len(s) - 1) |-> IF j < i THEN s[j] ELSE s[j + 1]]

Running == procState = "running"

\* The informer runs from `go c.informer.Run(stopCh)` (controller.go:185)
\* until stopCh is closed.
InformerOn == Running /\ runPc # "start" /\ ~stopped

\* ---------------------------------------------------------------- Init --
\* No invocation of the node labeler's handler has begun; no node is located.
GeoInit ==
    /\ geoPc = "idle"
    /\ geoNode = NoNode
    /\ geoResult = FALSE
    /\ geoLookups = <<>>
    /\ geoLabel = [n \in NodeNames |-> "none"]
    /\ geoBefore = "none"
    /\ nGeoCalls = 0

\* No team yet; the authority a is enabled and its namespace exists.
TeamInit ==
    /\ srvTeam = ZeroTeam
    /\ srvAuthEnabled = TRUE
    /\ srvNamespaces = {}
    /\ srvRoleBindings = {}
    /\ srvSlices = {}
    /\ teamCache = ZeroTeam
    /\ teamPc = "idle"
    /\ teamCopy = ZeroTeam
    /\ teamLocals = NoLocals
    /\ teamReqs = <<>>
    /\ teamRetry = "no"
    /\ nTeamCalls = 0
    /\ nExternal = 0

\* Three nodes are known, two of them in Paris and one in Lyon; no
\* selective deployment yet.
SelInit ==
    /\ selInventory = SelNodes \ {"node-b"}
    /\ selGeo = [n \in SelNodes |->
                   CASE n = "node-b" -> "" [] n = "node-d" -> "lyon"
                     [] OTHER -> "paris"]
    /\ selClauses = <<>>
    /\ selExisting = {}
    /\ selStored = [c \in TargetControllers |-> Unpinned]
    /\ selCands = <<>>
    /\ selTarget = <<>>
    /\ selWrites = {}
    /\ selStatus = [c \in TargetControllers |-> "none"]
    /\ selPrevTarget = <<>>
    /\ selRepeat = FALSE
    /\ selChanged = FALSE
    /\ nSelChanges = 0
    /\ nSelPasses = 0

\* The engine of the team controller has no event yet.
EngineInit ==
    /\ teamWatch = <<>>
    /\ teamEvent = ZeroEvent
    /\ teamWq = InitQueue
    /\ teamCur = ZeroEvent

\* The state after construction; engine: the team handler is driven by its
\* controller's engine.
Boot(engine) ==
    /\ GeoInit
    /\ TeamInit
    /\ EngineInit
    /\ teamEngine = engine
    /\ SelInit
    /\ cacheObj = [k \in Keys |-> Nil]
    /\ synced = FALSE
    /\ event = ZeroEvent
    /\ wq = InitQueue
    /\ runPc = "start"
    /\ stopped = FALSE
    /\ procState = "running"
    /\ workerPc = [w \in Workers |-> "notStarted"]
    /\ cur = [w \in Workers |-> NoItem]
    /\ call = [w \in Workers |-> NoCall]
    /\ outcome = [w \in Workers |-> NoOutcome]
    /\ seen = [w \in Workers |-> Nil]
    /\ nNotifs = 0
    /\ nEffAdds = 0
    /\ nTaken = 0
    /\ pending = <<>>
    /\ readded = {}
    /\ retries = [k \in Keys |-> 0]
    /\ tookAfterStop = FALSE

Init == Boot(FALSE)

InitEngine == Boot(TRUE)

\* The process has ended (ps: "exited" or "crashed"): its goroutines and its
\* memory are gone.  Every variable but procState takes its initial value,
\* so what a claim says about the moment the process ends is stated on the
\* step that ends it.
ProcessEnds(ps) ==
    /\ procState' = ps
    /\ cacheObj' = [k \in Keys |-> Nil]
    /\ synced' = FALSE
    /\ event' = ZeroEvent
    /\ wq' = InitQueue
    /\ runPc' = "start"
    /\ stopped' = FALSE
    /\ workerPc' = [w \in Workers |-> "notStarted"]
    /\ cur' = [w \in Workers |-> NoItem]
    /\ call' = [w \in Workers |-> NoCall]
    /\ outcome' = [w \in Workers |-> NoOutcome]
    /\ seen' = [w \in Workers |-> Nil]
    /\ nNotifs' = 0
    /\ nEffAdds' = 0
    /\ nTaken' = 0
    /\ pending' = <<>>
    /\ readded' = {}
    /\ retries' = [k \in Keys |-> 0]
    /\ tookAfterStop' = FALSE

\* ------------------------------------------------------- the informer --
\* One callback: the shared `event` becomes e and a copy of it is handed to
\* queue.Add (controller.go:100, 117, 127); obj is the object the callback
\* was given.
Notify(e, obj) ==
    LET q2 == QueueAdd(wq, e)
        effective == e \in q2.dirty /\ e \notin wq.dirty
    IN /\ event' = e
       /\ wq' = q2
       /\ nNotifs' = nNotifs + 1
       /\ nEffAdds' = IF effective THEN nEffAdds + 1 ELSE nEffAdds
       /\ pending' = IF effective THEN Append(pending, [item |-> e, obj |-> obj])
                     ELSE pending
       /\ readded' = IF effective /\ e \in wq.processing THEN readded \cup {e}
                     ELSE readded

\* The informer stores a new object and calls AddFunc.
InformerAdd(k, o, limit) ==
    /\ InformerOn
    /\ nNotifs < limit
    /\ cacheObj[k] = Nil
    /\ cacheObj' = [cacheObj EXCEPT ![k] = o]
    /\ Notify(AddFunc(event, k), o)
    /\ UNCHANGED <<synced, runPc, stopped, procState, workerPc, cur, call,
                   outcome, seen, nTaken, retries, tookAfterStop>>
    /\ UNCHANGED handlerVars

\* The informer stores a changed object (o may repeat the fields the
\* controller reads: a change elsewhere in the object) and calls UpdateFunc.
InformerUpdate(k, o, limit) ==
    /\ InformerOn
    /\ nNotifs < limit
    /\ cacheObj[k] # Nil
    /\ cacheObj' = [cacheObj EXCEPT ![k] = o]
    /\ Notify(UpdateFunc(event, k, cacheObj[k], o), o)
    /\ UNCHANGED <<synced, runPc, stopped, procState, workerPc, cur, call,
                   outcome, seen, nTaken, retries, tookAfterStop>>
    /\ UNCHANGED handlerVars

\* The informer removes an object and calls DeleteFunc with its last state.
InformerDelete(k, limit) ==
    /\ InformerOn
    /\ nNotifs < limit
    /\ cacheObj[k] # Nil
    /\ cacheObj' = [cacheObj EXCEPT ![k] = Nil]
    /\ Notify(DeleteFunc(event, k), cacheObj[k])
    /\ UNCHANGED <<synced, runPc, stopped, procState, workerPc, cur, call,
                   outcome, seen, nTaken, retries, tookAfterStop>>
    /\ UNCHANGED handlerVars

\* The initial listing is complete: HasSynced becomes true.
InformerSynced ==
    /\ InformerOn
    /\ ~synced
    /\ synced' = TRUE
    /\ UNCHANGED <<cacheObj, event, wq, runPc, stopped, procState, workerPc,
                   cur, call, outcome, seen, nNotifs, nEffAdds, nTaken,
                   pending, readded, retries, tookAfterStop>>
    /\ UNCHANGED handlerVars

\* The delaying queue's timer of an item fires: waitingForAdd -> Add.
DelayedAdd(item) ==
    /\ Running
    /\ item \in wq.waitingForAdd
    /\ wq' = QueueAdd([wq EXCEPT !.waitingForAdd = @ \ {item}], item)
    /\ UNCHANGED <<cacheObj, synced, event, runPc, stopped, procState,
                   workerPc, cur, call, outcome, seen, nNotifs, nEffAdds,
                   nTaken, pending, readded, retries, tookAfterStop>>
    /\ UNCHANGED handlerVars

\* ------------------------------------------------- main and run --
\* controller.go:165-173 (Start): a termination signal arrives, Start
\* returns and its deferred close(stopCh) runs.
SigTerm ==
    /\ Running
    /\ ~stopped
    /\ stopped' = TRUE
    /\ UNCHANGED <<cacheObj, synced, event, wq, runPc, procState, workerPc,
                   cur, call, outcome, seen, nNotifs, nEffAdds, nTaken,
                   pending, readded, retries, tookAfterStop>>
    /\ UNCHANGED handlerVars

\* main returns right after Start (part_003:8-13): the process ends, and
\* with it every goroutine, wherever it is.
ProcessExit ==
    /\ Running
    /\ stopped
    /\ ProcessEnds("exited")
    /\ UNCHANGED handlerVars

\* controller.go:182-185: handler.Init() and `go c.informer.Run(stopCh)`.
RunStart ==
    /\ Running
    /\ runPc = "start"
    /\ runPc' = "waitSync"
    /\ UNCHANGED <<cacheObj, synced, event, wq, stopped, procState, workerPc,
                   cur, call, outcome, seen, nNotifs, nEffAdds, nTaken,
                   pending, readded, retries, tookAfterStop>>
    /\ UNCHANGED handlerVars

\* A run that does not wait for the cache.
WaitForCacheSync_Skipped == TRUE

\* controller.go:188: cache.WaitForCacheSync(stopCh, c.informer.HasSynced)
\* returns true once HasSynced is observed true.
WaitForCacheSync == synced

\* controller.go:188-194: the cache is synchronized; the worker goroutine is
\* created (`go wait.Until(c.runWorker, time.Second, stopCh)`).
RunSyncOk ==
    /\ Running
    /\ runPc = "waitSync"
    /\ WaitForCacheSync
    /\ runPc' = "waitStop"
    /\ workerPc' = [w \in Workers |-> "spawned"]
    /\ UNCHANGED <<cacheObj, synced, event, wq, stopped, procState, cur, call,
                   outcome, seen, nNotifs, nEffAdds, nTaken, pending, readded,
                   retries, tookAfterStop>>
    /\ UNCHANGED handlerVars

\* controller.go:188-191 and 181: stopCh is closed while waiting for the
\* cache; run returns and its deferred queue.ShutDown() runs.
RunSyncFail ==
    /\ Running
    /\ runPc = "waitSync"
    /\ stopped
    /\ runPc' = "done"
    /\ wq' = QueueShutDown(wq)
    /\ UNCHANGED <<cacheObj, synced, event, stopped, procState, workerPc, cur,
                   call, outcome, seen, nNotifs, nEffAdds, nTaken, pending,
                   readded, retries, tookAfterStop>>
    /\ UNCHANGED handlerVars

\* controller.go:196 and 181: `<-stopCh` returns, run returns and its
\* deferred queue.ShutDown() runs.
RunStop ==
    /\ Running
    /\ runPc = "waitStop"
    /\ stopped
    /\ runPc' = "done"
    /\ wq' = QueueShutDown(wq)
    /\ UNCHANGED <<cacheObj, synced, event, stopped, procState, workerPc, cur,
                   call, outcome, seen, nNotifs, nEffAdds, nTaken, pending,
                   readded, retries, tookAfterStop>>
    /\ UNCHANGED handlerVars

\* ------------------------------------------------------- the worker --
\* wait.Until checks stopCh before it calls runWorker (controller.go:194).
WorkerStart(w) ==
    /\ Running
    /\ workerPc[w] = "spawned"
    /\ workerPc' = [workerPc EXCEPT ![w] = IF stopped THEN "finished" ELSE "idle"]
    /\ UNCHANGED <<cacheObj, synced, event, wq, runPc, stopped, procState,
                   cur, call, outcome, seen, nNotifs, nEffAdds, nTaken,
                   pending, readded, retries, tookAfterStop>>
    /\ UNCHANGED handlerVars

\* controller.go:214-218: queue.Get returns an item.
Get(w) ==
    /\ Running
    /\ workerPc[w] = "idle"
    /\ Len(wq.queue) > 0
    /\ LET item == Head(wq.queue)
           i == PendingIndex(item)
       IN /\ cur' = [cur EXCEPT ![w] = item]
          /\ wq' = QueueGet(wq)
          /\ workerPc' = [workerPc EXCEPT ![w] = "got"]
          /\ nTaken' = IF IsEvent(item) THEN nTaken + 1 ELSE nTaken
          /\ seen' = [seen EXCEPT ![w] = IF i > 0 THEN pending[i].obj ELSE Nil]
          /\ pending' = IF i > 0 THEN RemoveAt(pending, i) ELSE pending
          /\ readded' = readded \ {item}
    /\ tookAfterStop' = (tookAfterStop \/ stopped)
    /\ UNCHANGED <<cacheObj, synced, event, runPc, stopped, procState, call,
                   outcome, nNotifs, nEffAdds, retries>>
    /\ UNCHANGED handlerVars

\* controller.go:214-217 and 203-207: the queue is shut down and empty, Get
\* reports quit, runWorker returns; wait.Until ends when stopCh is closed
\* (else it calls runWorker again a second later).
GetQuit(w) ==
    /\ Running
    /\ workerPc[w] = "idle"
    /\ Len(wq.queue) = 0
    /\ wq.shuttingDown
    /\ workerPc' = [workerPc EXCEPT ![w] = IF stopped THEN "finished" ELSE "idle"]
    /\ UNCHANGED <<cacheObj, synced, event, wq, runPc, stopped, procState,
                   cur, call, outcome, seen, nNotifs, nEffAdds, nTaken,
                   pending, readded, retries, tookAfterStop>>
    /\ UNCHANGED handlerVars

\* A dispatch that trusts the object the callback saw at enqueue time.
GetByKey_Enqueued(w, err) == IF err THEN Nil ELSE seen[w]

\* controller.go:220-222: the object looked up in the indexer under the key
\* of the item (nil when the lookup fails).
GetByKey(w, err) == IF err THEN Nil ELSE cacheObj[cur[w].key]

\* controller.go:223-232: the lookup failed.
OnLookupError(q, k) ==
    IF NumRequeues(q, k) < RetryBudget
    THEN QueueAddRateLimited(q, k)
    ELSE QueueForget(q, k)

\* controller.go:234-247: the handler method that is called, if any.
Dispatch(item, obj) ==
    IF ~obj.present
    THEN (IF item.function = delete THEN "ObjectDeleted" ELSE "none")
    ELSE IF item.function = create THEN "ObjectCreated"
    ELSE IF item.function = update THEN "ObjectUpdated"
    ELSE "none"

\* A pass that ends without queue.Done.
EndOfPass_NoDone(q, item) == QueueForget(q, item.key)

\* controller.go:248 and the deferred Done of line 218: the end of a pass
\* that returns true.
EndOfPass(q, item) == QueueDone(QueueForget(q, item.key), item)

\* controller.go:220: event.(informerevent) on an item that is a string
\* panics; HandleCrash (wait.Until's, around runWorker) logs the panic and
\* raises it again: the process dies.
ProcessPanic(w) ==
    /\ Running
    /\ workerPc[w] = "got"
    /\ ~IsEvent(cur[w])
    /\ ProcessEnds("crashed")
    /\ UNCHANGED handlerVars

\* controller.go:220-247: the lookup (err: whether GetByKey reports an
\* error), the retry branch, and the call of the handler.
Process(w, err) ==
    /\ Running
    /\ workerPc[w] = "got"
    /\ IsEvent(cur[w])
    /\ LET item == cur[w]
           k == item.key
           obj == GetByKey(w, err)
           q1 == IF err THEN OnLookupError(wq, k) ELSE wq
           fn == Dispatch(item, obj)
       IN /\ retries' = [retries EXCEPT ![k] =
                            IF ~err THEN 0
                            ELSE IF KeyItem(k) \in q1.waitingForAdd
                                    /\ q1.failures[k] > wq.failures[k]
                                 THEN @ + 1 ELSE @]
          /\ IF fn = "none"
             THEN /\ wq' = EndOfPass(q1, item)
                  /\ workerPc' = [workerPc EXCEPT ![w] = "idle"]
                  /\ cur' = [cur EXCEPT ![w] = NoItem]
                  /\ seen' = [seen EXCEPT ![w] = Nil]
                  /\ outcome' = [outcome EXCEPT ![w] =
                        [res |-> IF err THEN "lookupErr" ELSE "ok", item |-> item]]
                  /\ call' = call
             ELSE /\ wq' = q1
                  /\ workerPc' = [workerPc EXCEPT ![w] = "handling"]
                  /\ call' = [call EXCEPT ![w] =
                        [fn |-> fn, key |-> k, obj |-> obj,
                         updated |-> IF fn = "ObjectUpdated" THEN item.updated ELSE NoFields,
                         lookupErr |-> err]]
                  /\ UNCHANGED <<cur, seen, outcome>>
    /\ UNCHANGED <<cacheObj, synced, event, runPc, stopped, procState,
                   nNotifs, nEffAdds, nTaken, pending, readded, tookAfterStop>>
    /\ UNCHANGED handlerVars

\* The handler returns.  Its methods return nothing (team/handler.go:37-42),
\* so a failed API call inside it ("apiFail") looks like success to
\* processNextItem: controller.go:248 Forget and the deferred Done follow.
HandlerReturn(w, res) ==
    /\ Running
    /\ workerPc[w] = "handling"
    /\ res \in {"ok", "apiFail"}
    /\ wq' = EndOfPass(wq, cur[w])
    /\ workerPc' = [workerPc EXCEPT ![w] = "idle"]
    /\ outcome' = [outcome EXCEPT ![w] =
          [res |-> IF call[w].lookupErr THEN "lookupErr" ELSE res, item |-> cur[w]]]
    /\ cur' = [cur EXCEPT ![w] = NoItem]
    /\ seen' = [seen EXCEPT ![w] = Nil]
    /\ call' = [call EXCEPT ![w] = NoCall]
    /\ UNCHANGED <<cacheObj, synced, event, runPc, stopped, procState,
                   nNotifs, nEffAdds, nTaken, pending, readded, retries,
                   tookAfterStop>>
    /\ UNCHANGED handlerVars

\* The handler panics: HandleCrash (wait.Until's, around runWorker) logs
\* the panic and raises it again, which ends the process.
HandlerPanic(w) ==
    /\ Running
    /\ workerPc[w] = "handling"
    /\ ProcessEnds("crashed")
    /\ UNCHANGED handlerVars

\* ---------------------------------------------------- specifications --
Next ==
    \/ \E k \in Keys, o \in Objects : InformerAdd(k, o, MaxNotifs)
    \/ \E k \in Keys, o \in Objects : InformerUpdate(k, o, MaxNotifs)
    \/ \E k \in Keys : InformerDelete(k, MaxNotifs)
    \/ InformerSynced
    \/ \E k \in Keys : DelayedAdd(KeyItem(k))
    \/ SigTerm
    \/ ProcessExit
    \/ RunStart
    \/ RunSyncOk
    \/ RunSyncFail
    \/ RunStop
    \/ \E w \in Workers : WorkerStart(w)
    \/ \E w \in Workers : Get(w)
    \/ \E w \in Workers : GetQuit(w)
    \/ \E w \in Workers : ProcessPanic(w)
    \/ \E w \in Workers, err \in BOOLEAN : Process(w, err)
    \/ \E w \in Workers, res \in {"ok", "apiFail"} : HandlerReturn(w, res)
    \/ \E w \in Workers : HandlerPanic(w)

Spec == Init /\ [][Next]_vars

\* The same controller watching a single object that is notified more often:
\* coalescing and the change summary need three notifications of one key.
OneKey == {"ns/a"}

NextOneKey ==
    \/ \E k \in OneKey, o \in Objects : InformerAdd(k, o, MaxOneKey)
    \/ \E k \in OneKey, o \in Objects : InformerUpdate(k, o, MaxOneKey)
    \/ \E k \in OneKey : InformerDelete(k, MaxOneKey)
    \/ InformerSynced
    \/ \E k \in OneKey : DelayedAdd(KeyItem(k))
    \/ SigTerm
    \/ ProcessExit
    \/ RunStart
    \/ RunSyncOk
    \/ RunSyncFail
    \/ RunStop
    \/ \E w \in Workers : WorkerStart(w)
    \/ \E w \in Workers : Get(w)
    \/ \E w \in Workers : GetQuit(w)
    \/ \E w \in Workers : ProcessPanic(w)
    \/ \E w \in Workers, err \in BOOLEAN : Process(w, err)
    \/ \E w \in Workers, res \in {"ok", "apiFail"} : HandlerReturn(w, res)
    \/ \E w \in Workers : HandlerPanic(w)

SpecOneKey == Init /\ [][NextOneKey]_vars

\* The same controller while one object is delivered again and again with
\* the fields the controller reads unchanged: re-queueing and consecutive
\* failures need up to six notifications of one key.
OneObject == {[present |-> TRUE, enabled |-> TRUE, users |-> 0]}

NextRedeliver ==
    \/ \E k \in OneKey, o \in OneObject : InformerAdd(k, o, MaxRedeliver)
    \/ \E k \in OneKey, o \in OneObject : InformerUpdate(k, o, MaxRedeliver)
    \/ \E k \in OneKey : InformerDelete(k, MaxRedeliver)
    \/ InformerSynced
    \/ \E k \in OneKey : DelayedAdd(KeyItem(k))
    \/ SigTerm
    \/ ProcessExit
    \/ RunStart
    \/ RunSyncOk
    \/ RunSyncFail
    \/ RunStop
    \/ \E w \in Workers : WorkerStart(w)
    \/ \E w \in Workers : Get(w)
    \/ \E w \in Workers : GetQuit(w)
    \/ \E w \in Workers : ProcessPanic(w)
    \/ \E w \in Workers, err \in BOOLEAN : Process(w, err)
    \/ \E w \in Workers, res \in {"ok", "apiFail"} : HandlerReturn(w, res)
    \/ \E w \in Workers : HandlerPanic(w)

SpecRedeliver == Init /\ [][NextRedeliver]_vars

\* ---------------------------------------------------- the node labeler --
\* part_001:39  the external address is used when the node has one.
TryExternal(n) == n.externalIP # ""

TryInternal_Always(n, result) == n.internalIP # ""

TryInternal_NoFallback(n, result) == n.internalIP # "" /\ n.externalIP = ""

\* part_001:45  the internal address is used when the node has one and the
\* external address did not locate the node.
TryInternal(n, result) == n.internalIP # "" /\ result = FALSE

\* node.GetGeolocationByIP(name, ip, clientset) that located the node
\* records the location on the node; one that failed leaves the node as it
\* was.
GetGeolocationByIP(labels, name, kind, ok) ==
    IF ok THEN [labels EXCEPT ![name] = kind] ELSE labels

AfterInternal_Retry(tried, ok) ==
    IF tried /\ ~ok THEN "external" ELSE "returned"

\* part_001:48-49  after the second if statement the function returns,
\* whatever the lookup gave.
AfterInternal(tried, ok) == "returned"

\* part_001:33-37  the controller calls SetNodeGeolocation(obj) for an added
\* or updated node: the addresses are read and result is false.
SetNodeGeolocation(n) ==
    /\ geoPc \in {"idle", "returned"}
    /\ nGeoCalls < MaxGeoCalls
    /\ geoPc' = "external"
    /\ geoNode' = n
    /\ geoResult' = FALSE
    /\ geoLookups' = <<>>
    /\ geoBefore' = geoLabel[n.name]
    /\ nGeoCalls' = nGeoCalls + 1
    /\ UNCHANGED geoLabel
    /\ UNCHANGED <<ctlVars, teamVars, selVars>>

\* part_001:39-42  the lookup by the external address; ok is its result.
GeoExternal(ok) ==
    /\ geoPc = "external"
    /\ IF TryExternal(geoNode)
       THEN /\ geoResult' = ok
            /\ geoLookups' = Append(geoLookups,
                                    Lookup("external", geoNode.externalIP, ok))
            /\ geoLabel' = GetGeolocationByIP(geoLabel, geoNode.name,
                                              "external", ok)
       ELSE UNCHANGED <<geoResult, geoLookups, geoLabel>>
    /\ geoPc' = "internal"
    /\ UNCHANGED <<geoNode, geoBefore, nGeoCalls>>
    /\ UNCHANGED <<ctlVars, teamVars, selVars>>

\* part_001:45-49  the lookup by the internal address, whose result is
\* dropped, and the return.
GeoInternal(ok) ==
    /\ geoPc = "internal"
    /\ LET tried == TryInternal(geoNode, geoResult)
       IN /\ IF tried
             THEN /\ geoLookups' = Append(geoLookups,
                                    Lookup("internal", geoNode.internalIP, ok))
                  /\ geoLabel' = GetGeolocationByIP(geoLabel, geoNode.name,
                                                    "internal", ok)
             ELSE UNCHANGED <<geoLookups, geoLabel>>
          /\ geoPc' = AfterInternal(tried, ok)
    /\ UNCHANGED <<geoNode, geoResult, geoBefore, nGeoCalls>>
    /\ UNCHANGED <<ctlVars, teamVars, selVars>>

NextGeo ==
    \/ \E n \in Nodes : SetNodeGeolocation(n)
    \/ \E ok \in BOOLEAN : GeoExternal(ok)
    \/ \E ok \in BOOLEAN : GeoInternal(ok)

SpecGeo == Init /\ [][NextGeo]_vars

\* ------------------------------------------------------ the API server --
\* Teams(ns).Update(copy): the write is applied when the team exists under
\* that namespace and name and copy carries its current resourceVersion
\* (optimistic concurrency); the status is not written (team.yaml:22-23, the
\* status subresource) and a changed spec raises the generation.  An
\* unchanged object is stored as it is.  The result next to an error is
\* &Team{}.
ServerUpdate(srv, copy, apiOk) ==
    LET ok == /\ apiOk /\ srv # ZeroTeam
              /\ copy.ns = srv.ns /\ copy.name = srv.name /\ copy.rv = srv.rv
        changed == copy.owners # srv.owners \/ copy.users # srv.users
        new == [srv EXCEPT !.owners = copy.owners,
                           !.users = copy.users,
                           !.generation = IF copy.users # srv.users
                                          THEN srv.generation + 1
                                          ELSE srv.generation,
                           !.rv = IF changed THEN srv.rv + 1 ELSE srv.rv]
    IN [ok |-> ok, team |-> IF ok THEN new ELSE srv,
        result |-> IF ok THEN new ELSE ZeroTeam]

\* Teams(ns).UpdateStatus(copy): as Update, for the status alone.
ServerUpdateStatus(srv, ns, copy, apiOk) ==
    LET ok == /\ apiOk /\ srv # ZeroTeam
              /\ ns = srv.ns /\ copy.name = srv.name /\ copy.rv = srv.rv
        new == [srv EXCEPT !.enabled = copy.enabled,
                           !.rv = IF copy.enabled # srv.enabled
                                  THEN srv.rv + 1 ELSE srv.rv]
    IN [ok |-> ok, team |-> IF ok THEN new ELSE srv]

\* Teams(ns).Delete(name).
ServerDelete(srv, ns, name, apiOk) ==
    LET ok == apiOk /\ srv # ZeroTeam /\ ns = srv.ns /\ name = srv.name
    IN [ok |-> ok, team |-> IF ok THEN ZeroTeam ELSE srv]

\* handler.go:133, 114  fmt.Sprintf("%s-team-%s", namespace, name)
ChildNamespaceStr(ns, name) == ns \o "-team-" \o name

\* handler.go:102  fmt.Sprintf("team-%s", name)
TeamNamespaceStr(name) == "team-" \o name

\* Namespaces().Create(namespace): refused for a name that is taken or that
\* is not a DNS label (of the names the handler can build, the one built
\* from an empty namespace and name, which begins with a hyphen).
ServerCreateNamespace(nss, namespace, apiOk) ==
    LET ok == /\ apiOk
              /\ namespace.name # ChildNamespaceStr("", "")
              /\ \A n \in nss : n.name # namespace.name
    IN [ok |-> ok, namespaces |-> IF ok THEN nss \cup {namespace} ELSE nss]

NamespaceExists(nss, name) == \E n \in nss : n.name = name

\* The number of invocations of the handler that are followed: more when
\* they are the engine's, which makes one per event.
CallCap == IF teamEngine THEN MaxEngineCalls ELSE MaxTeamCalls

\* ------------------------------------------------- writes by others, cache --
\* A user creates the team authority-a/t1.
ExternalCreate(users) ==
    /\ srvTeam = ZeroTeam
    /\ nExternal < MaxExternal
    /\ srvTeam' = [ns |-> TeamNamespace, name |-> TeamName, rv |-> 1,
                   generation |-> 1, users |-> users, enabled |-> FALSE,
                   owners |-> <<>>]
    /\ nExternal' = nExternal + 1
    /\ UNCHANGED <<srvAuthEnabled, srvNamespaces, srvRoleBindings, srvSlices,
                   teamCache, teamPc, teamCopy, teamLocals, teamReqs,
                   teamRetry, nTeamCalls>>
    /\ UNCHANGED <<ctlVars, geoVars, selVars, teamEngine>>

\* Somebody else writes the team: its Spec.Users ("users"), its
\* Status.Enabled ("enabled") or a field the handler does not read ("other").
ExternalUpdate(what, users) ==
    /\ srvTeam # ZeroTeam
    /\ nExternal < MaxExternal
    /\ what = "users" => users # srvTeam.users
    /\ srvTeam' =
          CASE what = "users" ->
                 [srvTeam EXCEPT !.users = users, !.rv = @ + 1,
                                 !.generation = @ + 1]
            [] what = "enabled" ->
                 [srvTeam EXCEPT !.enabled = ~@, !.rv = @ + 1]
            [] what = "other" -> [srvTeam EXCEPT !.rv = @ + 1]
    /\ nExternal' = nExternal + 1
    /\ UNCHANGED <<srvAuthEnabled, srvNamespaces, srvRoleBindings, srvSlices,
                   teamCache, teamPc, teamCopy, teamLocals, teamReqs,
                   teamRetry, nTeamCalls>>
    /\ UNCHANGED <<ctlVars, geoVars, selVars, teamEngine>>

\* The authority a is disabled or enabled again.
ExternalAuthority ==
    /\ nExternal < MaxExternal
    /\ srvAuthEnabled' = ~srvAuthEnabled
    /\ nExternal' = nExternal + 1
    /\ UNCHANGED <<srvTeam, srvNamespaces, srvRoleBindings, srvSlices,
                   teamCache, teamPc, teamCopy, teamLocals, teamReqs,
                   teamRetry, nTeamCalls>>
    /\ UNCHANGED <<ctlVars, geoVars, selVars, teamEngine>>

\* The informer's watch catches up with the API server.
CacheSync ==
    /\ teamCache # srvTeam
    /\ srvTeam # ZeroTeam
    /\ teamCache' = srvTeam
    /\ UNCHANGED <<srvVars, teamPc, teamCopy, teamLocals, teamReqs, teamRetry,
                   nTeamCalls, nExternal>>
    /\ UNCHANGED <<ctlVars, geoVars, selVars, teamEngine>>

\* ---------------------------------------------------- the team handler --
\* strings.ToLower, on the role names that occur.
ToLower(str) ==
    CASE str = "Admin" -> "admin"
      [] str = "Manager" -> "manager"
      [] str = "User" -> "user"
      [] OTHER -> str

containsRole_Exact(roles, value) == \E i \in 1..Len(roles) : value = roles[i]

\* handler.go:221-228
containsRole(roles, value) ==
    \E i \in 1..Len(roles) : ToLower(value) = ToLower(roles[i])

\* handler.go:166, 205  Users(...).Get(username) gave no error and the user
\* is active and has accepted the AUP.
ActiveUser(u) == u \in DOMAIN UserDB /\ UserDB[u].active /\ UserDB[u].aup

setOwnerReferences_All(copy) ==
    [team |-> [i \in 1..Len(copy.users) |-> OwnerRef("User", copy.users[i])],
     namespace |-> <<OwnerRef("Team", copy.name)>>]

\* handler.go:200-218  the owner references of the team (its participants)
\* and of its child namespace (the team).
setOwnerReferences(copy) ==
    LET owners == SelectSeq(copy.users, ActiveUser)
    IN [team |-> [i \in 1..Len(owners) |-> OwnerRef("User", owners[i])],
        namespace |-> <<OwnerRef("Team", copy.name)>>]

\* handler.go:162-197  the role bindings that createRoleBindings asks for in
\* the namespace: for the active participants and for the active admins and
\* managers of the owner authority.  The API server creates them when the
\* namespace exists and the authority's users can be listed.
createRoleBindings(nss, childNs, copy, ownerAuthority) ==
    LET participants == {copy.users[i] : i \in 1..Len(copy.users)}
        listed == IF ownerAuthority = AuthorityName THEN DOMAIN UserDB ELSE {}
        bound == {u \in participants : ActiveUser(u)}
                 \cup {u \in listed :
                          /\ UserDB[u].active /\ UserDB[u].aup
                          /\ \/ containsRole(UserDB[u].roles, "admin")
                             \/ containsRole(UserDB[u].roles, "manager")}
    IN IF NamespaceExists(nss, childNs)
       THEN {[ns |-> childNs, user |-> u] : u \in bound}
       ELSE {}

\* Return of the handler method: teamRetry becomes "missed" when an Update
\* was due, obj was current and the invocation made no Update.
Returned(reqs, locals, retry) ==
    IF /\ retry = "due" /\ ~locals.updateFailed /\ locals.fresh
       /\ \A i \in 1..Len(reqs) : reqs[i].op # "Update"
    THEN "missed" ELSE retry

\* After an Update: "due" when it failed on a stale copy, "no" when it was
\* applied.
AfterUpdate(srv, copy, ok, retry) ==
    IF ok THEN "no"
    ELSE IF srv # ZeroTeam /\ copy.name = srv.name /\ copy.rv # srv.rv
         THEN "due" ELSE retry

\* handler.go:120, 150  the authority, as the handler read it, is not
\* enabled.
AuthorityDisabled(enabledRead) == ~enabledRead

\* handler.go:91-107, 120-122  ObjectCreated up to its first write.  nsOk and
\* authOk: the reads of the owner namespace and of the authority succeed
\* (their errors are dropped; a failed read leaves an empty object); getOk:
\* the read of the namespace "team-<name>" does.
ObjectCreated(nsOk, authOk, getOk) ==
    /\ teamPc = "idle"
    /\ teamCache # ZeroTeam
    /\ nTeamCalls < CallCap
    /\ nTeamCalls' = nTeamCalls + 1
    /\ LET copy == teamCache
           enabledRead == nsOk /\ authOk /\ srvAuthEnabled
           refs == setOwnerReferences(copy)
           locals == [NoLocals EXCEPT
                        !.authorityName = IF nsOk THEN AuthorityName ELSE "",
                        !.nsOwners = refs.namespace,
                        !.fresh = (teamCache = srvTeam),
                        !.authEnabled = srvAuthEnabled,
                        !.readsOk = (nsOk /\ authOk),
                        !.childExisted =
                            NamespaceExists(srvNamespaces,
                               ChildNamespaceStr(copy.ns, copy.name)),
                        !.fn = "ObjectCreated"]
           del == ServerDelete(srvTeam, copy.ns, copy.name, TRUE)
       IN IF enabledRead /\ copy.generation = 1
          THEN IF ~(getOk /\ NamespaceExists(srvNamespaces,
                                             TeamNamespaceStr(copy.name)))
               THEN /\ teamPc' = "created.update"
                    /\ teamCopy' = [copy EXCEPT !.owners = refs.team]
                    /\ teamLocals' = locals
                    /\ teamReqs' = <<>>
                    /\ UNCHANGED <<srvTeam, teamRetry>>
               ELSE /\ teamPc' = "idle"
                    /\ teamCopy' = copy
                    /\ teamLocals' = locals
                    /\ teamReqs' = <<>>
                    /\ teamRetry' = Returned(<<>>, locals, teamRetry)
                    /\ UNCHANGED srvTeam
          ELSE IF AuthorityDisabled(enabledRead)
               THEN /\ srvTeam' = del.team
                    /\ teamPc' = "idle"
                    /\ teamCopy' = copy
                    /\ teamLocals' = locals
                    /\ teamReqs' = <<Request("Delete", copy.ns, copy.name,
                                             del.ok, FALSE)>>
                    /\ teamRetry' = Returned(teamReqs', locals, teamRetry)
               ELSE /\ teamPc' = "idle"
                    /\ teamCopy' = copy
                    /\ teamLocals' = locals
                    /\ teamReqs' = <<>>
                    /\ teamRetry' = Returned(<<>>, locals, teamRetry)
                    /\ UNCHANGED srvTeam
    /\ UNCHANGED <<srvAuthEnabled, srvNamespaces, srvRoleBindings, srvSlices,
                   teamCache, nExternal>>
    /\ UNCHANGED <<ctlVars, geoVars, selVars, teamEngine>>

\* handler.go:108-112  Update of the owner references; teamCopy becomes the
\* result, whose error is dropped, and is enabled; UpdateStatus is deferred
\* with the namespace teamCopy has now.
CreatedUpdate(apiOk) ==
    /\ teamPc = "created.update"
    /\ LET r == ServerUpdate(srvTeam, teamCopy, apiOk)
       IN /\ srvTeam' = r.team
          /\ teamCopy' = [r.result EXCEPT !.enabled = TRUE]
          /\ teamLocals' = [teamLocals EXCEPT !.deferNs = r.result.ns,
                                              !.updateFailed = ~r.ok,
                                              !.apiFailed = @ \/ ~apiOk]
          /\ teamReqs' = Append(teamReqs,
                Request("Update", teamCopy.ns, teamCopy.name,
                        r.ok /\ r.team # srvTeam, FALSE))
          /\ teamRetry' = AfterUpdate(srvTeam, teamCopy, r.ok, teamRetry)
    /\ teamPc' = "created.namespace"
    /\ UNCHANGED <<srvAuthEnabled, srvNamespaces, srvRoleBindings, srvSlices,
                   teamCache, nTeamCalls, nExternal>>
    /\ UNCHANGED <<ctlVars, geoVars, selVars, teamEngine>>

\* handler.go:114-118  the child namespace is created, named and labelled
\* after teamCopy.
CreatedNamespace(apiOk) ==
    /\ teamPc = "created.namespace"
    /\ LET namespace ==
             [name |-> ChildNamespaceStr(teamCopy.ns, teamCopy.name),
              owners |-> teamLocals.nsOwners,
              labels |-> [owner |-> "team", ownerName |-> teamCopy.name,
                          authorityName |-> teamLocals.authorityName]]
           r == ServerCreateNamespace(srvNamespaces, namespace, apiOk)
       IN /\ srvNamespaces' = r.namespaces
          /\ teamReqs' = Append(teamReqs,
                Request("CreateNamespace", "", namespace.name, r.ok,
                        teamLocals.updateFailed))
    /\ teamPc' = "created.deferred"
    /\ teamLocals' = [teamLocals EXCEPT !.apiFailed = @ \/ ~apiOk]
    /\ UNCHANGED <<srvTeam, srvAuthEnabled, srvRoleBindings, srvSlices,
                   teamCache, teamCopy, teamRetry, nTeamCalls, nExternal>>
    /\ UNCHANGED <<ctlVars, geoVars, selVars, teamEngine>>

\* handler.go:112, 123  the deferred UpdateStatus(teamCopy), then the return.
CreatedDeferred(apiOk) ==
    /\ teamPc = "created.deferred"
    /\ LET r == ServerUpdateStatus(srvTeam, teamLocals.deferNs, teamCopy, apiOk)
       IN /\ srvTeam' = r.team
          /\ teamReqs' = Append(teamReqs,
                Request("UpdateStatus", teamLocals.deferNs, teamCopy.name,
                        r.ok /\ r.team # srvTeam, teamLocals.updateFailed))
    /\ teamPc' = "idle"
    /\ teamLocals' = [teamLocals EXCEPT !.apiFailed = @ \/ ~apiOk]
    /\ teamRetry' = Returned(teamReqs', teamLocals, teamRetry)
    /\ UNCHANGED <<srvAuthEnabled, srvNamespaces, srvRoleBindings, srvSlices,
                   teamCache, teamCopy, nTeamCalls, nExternal>>
    /\ UNCHANGED <<ctlVars, geoVars, selVars, teamEngine>>

TeamDisabled_Never(enabledRead, enabled) == FALSE

\* handler.go:147  the authority is enabled and the team is not.
TeamDisabled(enabledRead, enabled) == enabledRead /\ ~enabled

RebuildNeeded_Always(updated) == TRUE

\* handler.go:137  the change summary says that the participants or the
\* enabled state changed.
RebuildNeeded(updated) == updated.users \/ updated.enabled

\* handler.go:126-137, 147-152  ObjectUpdated up to the rebuilding of the
\* role bindings; updated is the change summary of the event.
ObjectUpdated(updated, nsOk, authOk) ==
    /\ teamPc = "idle"
    /\ teamCache # ZeroTeam
    /\ nTeamCalls < CallCap
    /\ nTeamCalls' = nTeamCalls + 1
    /\ LET copy == teamCache
           enabledRead == nsOk /\ authOk /\ srvAuthEnabled
           childNs == ChildNamespaceStr(copy.ns, copy.name)
           locals == [NoLocals EXCEPT
                        !.authorityName = IF nsOk THEN AuthorityName ELSE "",
                        !.fresh = (teamCache = srvTeam),
                        !.authEnabled = srvAuthEnabled,
                        !.readsOk = (nsOk /\ authOk),
                        !.childExisted =
                            NamespaceExists(srvNamespaces, childNs),
                        !.fn = "ObjectUpdated",
                        !.updated = updated]
           del == ServerDelete(srvTeam, childNs, copy.name, TRUE)
       IN /\ teamCopy' = copy
          /\ teamLocals' = locals
          /\ IF enabledRead /\ copy.enabled
             THEN IF RebuildNeeded(updated)
                  THEN /\ teamPc' = "updated.rolebindings"
                       /\ teamReqs' = <<>>
                       /\ UNCHANGED <<srvTeam, srvRoleBindings, srvSlices,
                                      teamRetry>>
                  ELSE /\ teamPc' = "idle"
                       /\ teamReqs' = <<>>
                       /\ teamRetry' = Returned(<<>>, locals, teamRetry)
                       /\ UNCHANGED <<srvTeam, srvRoleBindings, srvSlices>>
             ELSE IF TeamDisabled(enabledRead, copy.enabled)
                  THEN /\ srvSlices' = srvSlices \ {childNs}
                       /\ srvRoleBindings' =
                             {b \in srvRoleBindings : b.ns # childNs}
                       /\ teamPc' = "idle"
                       /\ teamReqs' =
                             <<Request("DeleteSlices", childNs, "",
                                       childNs \in srvSlices, FALSE),
                               Request("DeleteRoleBindings", childNs, "",
                                       srvRoleBindings' # srvRoleBindings,
                                       FALSE)>>
                       /\ teamRetry' = Returned(teamReqs', locals, teamRetry)
                       /\ UNCHANGED srvTeam
                  ELSE IF AuthorityDisabled(enabledRead)
                       THEN /\ srvTeam' = del.team
                            /\ teamPc' = "idle"
                            /\ teamReqs' = <<Request("Delete", childNs,
                                                     copy.name, del.ok, FALSE)>>
                            /\ teamRetry' = Returned(teamReqs', locals,
                                                     teamRetry)
                            /\ UNCHANGED <<srvRoleBindings, srvSlices>>
                       ELSE /\ teamPc' = "idle"
                            /\ teamReqs' = <<>>
                            /\ teamRetry' = Returned(<<>>, locals, teamRetry)
                            /\ UNCHANGED <<srvTeam, srvRoleBindings, srvSlices>>
    /\ UNCHANGED <<srvAuthEnabled, srvNamespaces, teamCache, nExternal>>
    /\ UNCHANGED <<ctlVars, geoVars, selVars, teamEngine>>

\* handler.go:139-141  the role bindings of the child namespace are deleted
\* and created again.
UpdatedRoleBindings ==
    /\ teamPc = "updated.rolebindings"
    /\ LET childNs == ChildNamespaceStr(teamCopy.ns, teamCopy.name)
           rest == {b \in srvRoleBindings : b.ns # childNs}
           made == createRoleBindings(srvNamespaces, childNs, teamCopy,
                                      teamLocals.authorityName)
       IN /\ srvRoleBindings' = rest \cup made
          /\ teamReqs' = teamReqs \o
                <<Request("DeleteRoleBindings", childNs, "",
                          rest # srvRoleBindings, FALSE),
                  Request("CreateRoleBindings", childNs, "", made # {}, FALSE)>>
    /\ teamPc' = "updated.update"
    /\ UNCHANGED <<srvTeam, srvAuthEnabled, srvNamespaces, srvSlices,
                   teamCache, teamCopy, teamLocals, teamRetry, nTeamCalls,
                   nExternal>>
    /\ UNCHANGED <<ctlVars, geoVars, selVars, teamEngine>>

\* handler.go:143-146  Update of the owner references, whose result and
\* error are dropped, then the return.
UpdatedUpdate(apiOk) ==
    /\ teamPc = "updated.update"
    /\ LET copy == [teamCopy EXCEPT !.owners = setOwnerReferences(teamCopy).team]
           r == ServerUpdate(srvTeam, copy, apiOk)
       IN /\ srvTeam' = r.team
          /\ teamCopy' = copy
          /\ teamLocals' = [teamLocals EXCEPT !.updateFailed = ~r.ok,
                                              !.apiFailed = @ \/ ~apiOk]
          /\ teamReqs' = Append(teamReqs,
                Request("Update", copy.ns, copy.name, r.ok /\ r.team # srvTeam,
                        FALSE))
          /\ teamRetry' = Returned(teamReqs', teamLocals',
                                   AfterUpdate(srvTeam, copy, r.ok, teamRetry))
    /\ teamPc' = "idle"
    /\ UNCHANGED <<srvAuthEnabled, srvNamespaces, srvRoleBindings, srvSlices,
                   teamCache, nTeamCalls, nExternal>>
    /\ UNCHANGED <<ctlVars, geoVars, selVars, teamEngine>>

\* handler.go:156-159  ObjectDeleted only logs.
ObjectDeleted ==
    /\ teamPc = "idle"
    /\ teamCache # ZeroTeam
    /\ nTeamCalls < CallCap
    /\ nTeamCalls' = nTeamCalls + 1
    /\ teamCopy' = ZeroTeam
    /\ teamLocals' = [NoLocals EXCEPT !.fn = "ObjectDeleted",
                                      !.fresh = (teamCache = srvTeam)]
    /\ teamReqs' = <<>>
    /\ UNCHANGED <<srvVars, teamCache, teamPc, teamRetry, nExternal>>
    /\ UNCHANGED <<ctlVars, geoVars, selVars, teamEngine>>

\* A slice is created in the team's child namespace by one of its users.
ExternalSlice ==
    /\ nExternal < MaxExternal
    /\ NamespaceExists(srvNamespaces, ChildNamespaceStr(TeamNamespace, TeamName))
    /\ ChildNamespaceStr(TeamNamespace, TeamName) \notin srvSlices
    /\ srvSlices' = srvSlices \cup {ChildNamespaceStr(TeamNamespace, TeamName)}
    /\ nExternal' = nExternal + 1
    /\ UNCHANGED <<srvTeam, srvAuthEnabled, srvNamespaces, srvRoleBindings,
                   teamCache, teamPc, teamCopy, teamLocals, teamReqs,
                   teamRetry, nTeamCalls>>
    /\ UNCHANGED <<ctlVars, geoVars, selVars, teamEngine>>

\* A role binding for a user who is not entitled to one is created in the
\* team's child namespace by an administrator.
ExternalRoleBinding ==
    /\ nExternal < MaxExternal
    /\ NamespaceExists(srvNamespaces, ChildNamespaceStr(TeamNamespace, TeamName))
    /\ StrayRoleBinding \notin srvRoleBindings
    /\ srvRoleBindings' = srvRoleBindings \cup {StrayRoleBinding}
    /\ nExternal' = nExternal + 1
    /\ UNCHANGED <<srvTeam, srvAuthEnabled, srvNamespaces, srvSlices,
                   teamCache, teamPc, teamCopy, teamLocals, teamReqs,
                   teamRetry, nTeamCalls>>
    /\ UNCHANGED <<ctlVars, geoVars, selVars, teamEngine>>

NextTeam ==
    \/ UNCHANGED engineVars
       /\ \E users \in UserLists : ExternalCreate(users)
    \/ UNCHANGED engineVars
       /\ \E what \in {"users", "enabled", "other"}, users \in UserLists :
             ExternalUpdate(what, users)
    \/ UNCHANGED engineVars /\ ExternalAuthority
    \/ UNCHANGED engineVars /\ ExternalSlice
    \/ UNCHANGED engineVars /\ ExternalRoleBinding
    \/ UNCHANGED engineVars /\ CacheSync
    \/ UNCHANGED engineVars
       /\ \E nsOk, authOk, getOk \in BOOLEAN :
             ObjectCreated(nsOk, authOk, getOk)
    \/ UNCHANGED engineVars /\ \E apiOk \in BOOLEAN : CreatedUpdate(apiOk)
    \/ UNCHANGED engineVars /\ \E apiOk \in BOOLEAN : CreatedNamespace(apiOk)
    \/ UNCHANGED engineVars /\ \E apiOk \in BOOLEAN : CreatedDeferred(apiOk)
    \/ UNCHANGED engineVars
       /\ \E updated \in [users : BOOLEAN, enabled : BOOLEAN],
             nsOk, authOk \in BOOLEAN : ObjectUpdated(updated, nsOk, authOk)
    \/ UNCHANGED engineVars /\ UpdatedRoleBindings
    \/ UNCHANGED engineVars /\ \E apiOk \in BOOLEAN : UpdatedUpdate(apiOk)
    \/ UNCHANGED engineVars /\ ObjectDeleted

SpecTeam == Init /\ [][NextTeam]_vars

\* ------------------------------------- the team controller's engine --
\* cache.MetaNamespaceKeyFunc of the team authority-a/t1.
TeamKey == TeamNamespace \o "/" \o TeamName

\* The watch: a version of the team that the API server stores is sent to
\* the informer.
Watch ==
    teamWatch' = IF srvTeam' # srvTeam THEN Append(teamWatch, srvTeam')
                 ELSE teamWatch

EngineExternalCreate ==
    /\ \E users \in UserLists : ExternalCreate(users)
    /\ Watch
    /\ UNCHANGED <<teamEvent, teamWq, teamCur>>

EngineExternalUpdate ==
    /\ \E what \in {"users", "enabled", "other"}, users \in UserLists :
          ExternalUpdate(what, users)
    /\ Watch
    /\ UNCHANGED <<teamEvent, teamWq, teamCur>>

\* controller.go:92-119  the informer receives the next version, stores it
\* in its indexer and calls AddFunc for a team it did not hold, UpdateFunc
\* for one it held; the callback adds its event to the work queue.
EngineInformer ==
    /\ teamWatch # <<>>
    /\ LET new == Head(teamWatch)
           ev == IF teamCache = ZeroTeam
                 THEN AddFunc(teamEvent, TeamKey)
                 ELSE UpdateFunc(teamEvent, TeamKey, teamCache, new)
       IN /\ teamCache' = new
          /\ teamEvent' = ev
          /\ teamWq' = QueueAdd(teamWq, ev)
    /\ teamWatch' = Tail(teamWatch)
    /\ UNCHANGED <<srvVars, teamPc, teamCopy, teamLocals, teamReqs, teamRetry,
                   nTeamCalls, nExternal, teamEngine, teamCur>>
    /\ UNCHANGED <<ctlVars, geoVars, selVars>>

\* controller.go:211-222, 239-242  processNextItem takes a create event,
\* finds the team in the indexer and calls ObjectCreated with it.
EngineCreated ==
    /\ teamCur = ZeroEvent
    /\ teamWq.queue # <<>>
    /\ Head(teamWq.queue).function = create
    /\ ObjectCreated(TRUE, TRUE, TRUE)
    /\ teamWq' = QueueGet(teamWq)
    /\ teamCur' = Head(teamWq.queue)
    /\ Watch
    /\ UNCHANGED teamEvent

\* controller.go:211-222, 243-245  processNextItem takes an update event,
\* finds the team in the indexer and calls ObjectUpdated with it and with
\* the event's change summary.
EngineUpdated ==
    /\ teamCur = ZeroEvent
    /\ teamWq.queue # <<>>
    /\ Head(teamWq.queue).function = update
    /\ ObjectUpdated(Head(teamWq.queue).updated, TRUE, TRUE)
    /\ teamWq' = QueueGet(teamWq)
    /\ teamCur' = Head(teamWq.queue)
    /\ Watch
    /\ UNCHANGED teamEvent

\* The steps of the handler after its first; the API server serves every
\* request.
EngineCreatedUpdate ==
    CreatedUpdate(TRUE) /\ Watch /\ UNCHANGED <<teamEvent, teamWq, teamCur>>

EngineCreatedNamespace ==
    CreatedNamespace(TRUE) /\ Watch /\ UNCHANGED <<teamEvent, teamWq, teamCur>>

EngineCreatedDeferred ==
    CreatedDeferred(TRUE) /\ Watch /\ UNCHANGED <<teamEvent, teamWq, teamCur>>

EngineUpdatedRoleBindings ==
    UpdatedRoleBindings /\ Watch /\ UNCHANGED <<teamEvent, teamWq, teamCur>>

EngineUpdatedUpdate ==
    UpdatedUpdate(TRUE) /\ Watch /\ UNCHANGED <<teamEvent, teamWq, teamCur>>

\* controller.go:218, 248-250  the handler has returned: the deferred
\* queue.Done(event).
EngineDone ==
    /\ teamPc = "idle"
    /\ teamCur # ZeroEvent
    /\ teamWq' = QueueDone(teamWq, teamCur)
    /\ teamCur' = ZeroEvent
    /\ UNCHANGED <<srvVars, teamCache, teamPc, teamCopy, teamLocals, teamReqs,
                   teamRetry, nTeamCalls, nExternal, teamEngine, teamWatch,
                   teamEvent>>
    /\ UNCHANGED <<ctlVars, geoVars, selVars>>

\* A step of the handler in the worker goroutine.
EngineHandler ==
    \/ EngineCreatedUpdate
    \/ EngineCreatedNamespace
    \/ EngineCreatedDeferred
    \/ EngineUpdatedRoleBindings
    \/ EngineUpdatedUpdate

NextTeamEngine ==
    \/ EngineExternalCreate
    \/ EngineExternalUpdate
    \/ EngineInformer
    \/ EngineCreated
    \/ EngineUpdated
    \/ EngineCreatedUpdate
    \/ EngineCreatedNamespace
    \/ EngineCreatedDeferred
    \/ EngineUpdatedRoleBindings
    \/ EngineUpdatedUpdate
    \/ EngineDone

\* The informer and the worker are goroutines of their own: each of them
\* goes on when it can.  Nothing obliges anybody else to write the team.
SpecTeamEngine ==
    /\ InitEngine
    /\ [][NextTeamEngine]_vars
    /\ WF_vars(EngineInformer)
    /\ WF_vars(EngineCreated \/ EngineUpdated)
    /\ WF_vars(EngineHandler)
    /\ WF_vars(EngineDone)

\* ------------------------------------------- the selective deployment --
Range(seq) == {seq[i] : i \in 1..Len(seq)}

Reverse(seq) == [i \in 1..Len(seq) |-> seq[Len(seq) + 1 - i]]

\* Two orders in which the cache can list the nodes of a set: by ascending
\* and by descending identifier.
Listings(S) ==
    LET In(n) == n \in S
        up == SelectSeq(NodeOrder, In)
    IN {up, Reverse(up)}

AllListings == UNION {Listings(S) : S \in SUBSET SelNodes}

\* Case normalisation of the region names that occur.
Normalize(str) ==
    CASE str = "Paris" -> "paris"
      [] str = "Lyon" -> "lyon"
      [] OTHER -> str

\* matches(regionType, clauseValue, nodeGeo) for City: exact, case-normalised
\* match; a node without a value for the field never matches.
Matches(regionType, value, nodeGeo) ==
    /\ regionType = "City"
    /\ nodeGeo # ""
    /\ Normalize(value) = Normalize(nodeGeo)

\* Step 1: the clause evaluated against every known node, in the order the
\* nodes are listed.
RawMatches(listing, geo, clause) ==
    LET Hit(n) == Matches("City", clause.value, geo[n])
    IN SelectSeq(listing, Hit)

Pool_Raw(listing, raw, operator) == raw

\* Steps 2 and 3: the raw match set for In, its complement within the known
\* nodes for NotIn.
Pool(listing, raw, operator) ==
    LET Miss(n) == n \notin Range(raw)
    IN IF operator = "NotIn" THEN SelectSeq(listing, Miss) ELSE raw

SortById_Listed(seq) == seq

\* The tie-break: node identifier ascending.
SortById(seq) ==
    LET Listed(n) == n \in Range(seq)
    IN SelectSeq(NodeOrder, Listed)

Cap_ZeroIsNone(seq, count) ==
    IF Len(seq) > count THEN SubSeq(seq, 1, count) ELSE seq

\* The cap: at most count entries when count > 0, else unlimited.
Cap(seq, count) ==
    IF count > 0 /\ Len(seq) > count THEN SubSeq(seq, 1, count) ELSE seq

\* The candidates of one clause.
Candidates(listing, geo, clause) ==
    Cap(SortById(Pool(listing, RawMatches(listing, geo, clause),
                      clause.operator)),
        clause.count)

Combine_Replace(target, cands) == cands

\* Step 4: union, deduplicated.
Combine(target, cands) ==
    LET New(n) == n \notin Range(target)
    IN target \o SelectSeq(cands, New)

RECURSIVE CombineAll(_, _)
CombineAll(cands, i) ==
    IF i = 0 THEN <<>> ELSE Combine(CombineAll(cands, i - 1), cands[i])

\* select(nodeGeoSet, clauses): the candidates of every clause and the target
\* node set.
Select(listing, geo, clauses) ==
    LET cands == [i \in 1..Len(clauses) |-> Candidates(listing, geo, clauses[i])]
    IN [cands |-> cands, target |-> CombineAll(cands, Len(cands))]

NeedsWrite_Always(stored, expression) == TRUE

\* Workload pinning writes only on divergence.
NeedsWrite(stored, expression) == stored # expression

\* apply(targetControllers, TargetNodeSet) for one target controller.
Apply(c, existing, stored, target) ==
    IF c \notin existing THEN "PartialFailure"
    ELSE IF NeedsWrite(stored, target) THEN "Applied"
    ELSE "NoopAlreadyCurrent"

\* A selective deployment is created; existing are its target controllers
\* that exist.
SelCreate(clauses, existing) ==
    /\ selClauses = <<>>
    /\ selClauses' = clauses
    /\ selExisting' = existing
    /\ selChanged' = TRUE
    /\ UNCHANGED <<selInventory, selGeo, selStored, selCands, selTarget,
                   selWrites, selStatus, selPrevTarget, selRepeat, nSelChanges,
                   nSelPasses>>
    /\ UNCHANGED <<ctlVars, geoVars, teamVars>>

\* A node's geolocation is resolved anew.
SelNodeMoves(n, city) ==
    /\ nSelChanges < MaxSelChanges
    /\ n \in selInventory
    /\ city # selGeo[n]
    /\ selGeo' = [selGeo EXCEPT ![n] = city]
    /\ selChanged' = TRUE
    /\ nSelChanges' = nSelChanges + 1
    /\ UNCHANGED <<selInventory, selClauses, selExisting, selStored, selCands,
                   selTarget, selWrites, selStatus, selPrevTarget, selRepeat,
                   nSelPasses>>
    /\ UNCHANGED <<ctlVars, geoVars, teamVars>>

\* A node joins the cluster.
SelNodeJoins(n, city) ==
    /\ nSelChanges < MaxSelChanges
    /\ n \notin selInventory
    /\ selInventory' = selInventory \cup {n}
    /\ selGeo' = [selGeo EXCEPT ![n] = city]
    /\ selChanged' = TRUE
    /\ nSelChanges' = nSelChanges + 1
    /\ UNCHANGED <<selClauses, selExisting, selStored, selCands, selTarget,
                   selWrites, selStatus, selPrevTarget, selRepeat, nSelPasses>>
    /\ UNCHANGED <<ctlVars, geoVars, teamVars>>

\* A node is removed, and its geolocation with it.
SelNodeLeaves(n) ==
    /\ nSelChanges < MaxSelChanges
    /\ n \in selInventory
    /\ selInventory' = selInventory \ {n}
    /\ selGeo' = [selGeo EXCEPT ![n] = ""]
    /\ selChanged' = TRUE
    /\ nSelChanges' = nSelChanges + 1
    /\ UNCHANGED <<selClauses, selExisting, selStored, selCands, selTarget,
                   selWrites, selStatus, selPrevTarget, selRepeat, nSelPasses>>
    /\ UNCHANGED <<ctlVars, geoVars, teamVars>>

\* One reconciliation pass of the selective deployment: selection, then
\* pinning of every target controller; listing is the order in which the
\* cache lists the nodes.
SelReconcile(listing) ==
    /\ Range(listing) = selInventory
    /\ selClauses # <<>>
    /\ nSelPasses < MaxSelPasses
    /\ LET r == Select(listing, selGeo, selClauses)
           result == [c \in TargetControllers |->
                        Apply(c, selExisting, selStored[c], r.target)]
       IN /\ selCands' = r.cands
          /\ selTarget' = r.target
          /\ selStatus' = result
          /\ selWrites' = {c \in TargetControllers : result[c] = "Applied"}
          /\ selStored' = [c \in TargetControllers |->
                             IF result[c] = "Applied" THEN r.target
                             ELSE selStored[c]]
    /\ selPrevTarget' = selTarget
    /\ selRepeat' = (nSelPasses > 0 /\ ~selChanged)
    /\ selChanged' = FALSE
    /\ nSelPasses' = nSelPasses + 1
    /\ UNCHANGED <<selInventory, selGeo, selClauses, selExisting, nSelChanges>>
    /\ UNCHANGED <<ctlVars, geoVars, teamVars>>

NextSelect ==
    \/ \E clauses \in ClauseLists, existing \in ExistingControllers :
          SelCreate(clauses, existing)
    \/ \E n \in SelNodes, city \in Cities : SelNodeMoves(n, city)
    \/ \E n \in SelNodes, city \in Cities : SelNodeJoins(n, city)
    \/ \E n \in SelNodes : SelNodeLeaves(n)
    \/ \E listing \in AllListings : SelReconcile(listing)

SpecSelect == Init /\ [][NextSelect]_vars

\* ------------------------------------------------------------- claims --
QueueItems(q) == {q.queue[i] : i \in 1..Len(q.queue)}

\* C1: no handler method is invoked, and no worker exists, before the
\* informer cache has reported that it is synchronized; when stopCh is closed
\* before the cache synchronizes, the worker is never started and no handler
\* method is invoked, whatever waits in the queue.
C1_SyncBarrier ==
    /\ \A w \in Workers : workerPc[w] # "notStarted" => synced
    /\ \A w \in Workers : call[w].fn # "none" => synced
    /\ (stopped /\ ~synced) =>
          \A w \in Workers : workerPc[w] = "notStarted" /\ call[w] = NoCall

\* run has returned after a stop that came before the synchronization, with
\* an event waiting in the queue and no worker.
C1_Witness ==
    /\ stopped
    /\ ~synced
    /\ runPc = "done"
    /\ Len(wq.queue) > 0
    /\ \A w \in Workers : workerPc[w] = "notStarted"

\* C5: the object handed to ObjectCreated / ObjectUpdated is the object
\* that the informer cache holds under the event's key at the moment of the
\* dispatch (not the one the callback saw when it enqueued the event).
C5_DispatchFromCache ==
    [][\A w \in Workers :
          (/\ workerPc[w] = "got"
           /\ workerPc'[w] = "handling"
           /\ call'[w].fn \in {"ObjectCreated", "ObjectUpdated"})
          => /\ call'[w].key = cur[w].key
             /\ call'[w].obj = cacheObj[cur[w].key]]_vars

\* A handler runs on an object that differs from the one its event's
\* callback had seen: the change made in between is visible to it.
C5_Witness ==
    \E w \in Workers :
        /\ workerPc[w] = "handling"
        /\ call[w].fn \in {"ObjectCreated", "ObjectUpdated"}
        /\ seen[w] # Nil
        /\ call[w].obj # seen[w]

\* C8: on every Update notification the event handed to queue.Add has
\* updated.enabled true exactly when Status.Enabled differs between the old
\* and the new object and updated.users true exactly when Spec.Users differs
\* (nothing is carried over from an earlier notification), and ObjectUpdated
\* receives the flags of the event it is called for.
C8_ChangeSummary ==
    /\ [][(nNotifs' = nNotifs + 1 /\ event'.function = update) =>
             /\ event'.updated.enabled =
                   (cacheObj[event'.key].enabled # cacheObj'[event'.key].enabled)
             /\ event'.updated.users =
                   (cacheObj[event'.key].users # cacheObj'[event'.key].users)
             /\ event' \in wq'.dirty]_vars
    /\ [](\A w \in Workers :
             call[w].fn = "ObjectUpdated" =>
                /\ cur[w].function = update
                /\ call[w].updated = cur[w].updated)

\* ObjectUpdated runs with exactly one flag set, after an earlier update
\* event of the same key had the other one.
C8_Witness ==
    \E w \in Workers :
        /\ workerPc[w] = "handling"
        /\ call[w].fn = "ObjectUpdated"
        /\ call[w].updated = [users |-> FALSE, enabled |-> TRUE]
        /\ event.function = update
        /\ event.updated = [users |-> TRUE, enabled |-> FALSE]

\* No informerevent is waiting or being processed.
NoEventInQueue ==
    /\ \A x \in QueueItems(wq) \cup wq.dirty \cup wq.processing : ~IsEvent(x)

\* C7 as stated: every queue.Add of an informer callback leads to its own
\* dispatch, so once no event is waiting or being processed the worker has
\* taken as many events as the callbacks added.
C7_ExactlyOncePerAdd == NoEventInQueue => nTaken = nNotifs

\* C7 as amended: a queue.Add of an event equal to one that is already
\* waiting (dirty) is coalesced with it; every other Add is matched by exactly
\* one dispatch or one waiting event, the queue never holds an event twice,
\* and the dispatches never outnumber the Adds.
C7_OncePerEffectiveAdd ==
    /\ nEffAdds = nTaken + Cardinality({x \in wq.dirty : IsEvent(x)})
    /\ nTaken <= nNotifs
    /\ \A i, j \in 1..Len(wq.queue) : i # j => wq.queue[i] # wq.queue[j]
    /\ \A x \in QueueItems(wq) : x \in wq.dirty

\* Three Adds, one of them coalesced, and both remaining events taken.
C7_Witness ==
    /\ nNotifs = 3
    /\ nEffAdds = 2
    /\ nTaken = 2
    /\ NoEventInQueue

\* C6 as stated: an event is handed to the worker only when no event of the
\* same key that was added (queue.Add) before it is still waiting.
C6_EnqueueOrder ==
    [][\A w \in Workers :
          (workerPc[w] = "idle" /\ workerPc'[w] = "got" /\ IsEvent(cur'[w]))
          => \A j \in 1..(PendingIndex(cur'[w]) - 1) :
                pending[j].item.key # cur'[w].key]_vars

\* C6 as amended: no two handler invocations for one key run at the same
\* time, and an event is handed to the worker only when every event of the
\* same key that was added before it and still waits is one that was added
\* again while an equal event was being processed (queue.Done puts that one
\* behind the events added in the meantime).
C6_QueueOrder ==
    /\ [][\A w \in Workers :
             (workerPc[w] = "idle" /\ workerPc'[w] = "got" /\ IsEvent(cur'[w]))
             => \A j \in 1..(PendingIndex(cur'[w]) - 1) :
                   \/ pending[j].item.key # cur'[w].key
                   \/ pending[j].item \in readded]_vars
    /\ [](\A v, w \in Workers :
             (v # w /\ workerPc[v] = "handling" /\ workerPc[w] = "handling")
             => call[v].key # call[w].key)

\* The worker holds an event while a different event of the same key, added
\* after it, waits in the queue.
C6_Witness ==
    \E w \in Workers :
        /\ workerPc[w] = "handling"
        /\ \E j \in 1..Len(pending) :
              /\ pending[j].item.key = cur[w].key
              /\ pending[j].item # cur[w]
              /\ pending[j].item \in QueueItems(wq)

\* C2 as stated: the re-enqueues of one key after consecutive failures never
\* exceed the budget: the event is abandoned instead of being re-enqueued a
\* sixth time.
C2_RetryBudget == \A k \in Keys : retries[k] <= RetryBudget

\* C3 as stated: the item that a failed pass re-enqueued is processed like the
\* event when the worker takes it (dispatched, Forget, Done); taking it never
\* brings the worker down.
C3_RetryDispatched ==
    [][\A w \in Workers :
          (workerPc[w] = "got" /\ ~IsEvent(cur[w])) => procState' # "crashed"]_vars

\* C4 as stated: after a pass that failed (a failed API call in the handler
\* or a failed lookup) and while the budget is not exhausted, the event (or
\* its key) waits for its retry: in the delaying queue, in the queue, or with
\* a worker.
C4_FailureRequeued ==
    \A w \in Workers :
        (/\ outcome[w].res \in {"apiFail", "lookupErr"}
         /\ retries[outcome[w].item.key] < RetryBudget)
        => \E x \in wq.waitingForAdd \cup wq.dirty \cup wq.processing :
              x.key = outcome[w].item.key

\* C9 as stated: once stopCh is closed no worker takes an item, and the
\* process ends only with no handler in flight and the queue shut down.
C9_CooperativeShutdown ==
    /\ [](~tookAfterStop)
    /\ [][procState' = "exited" =>
             /\ \A w \in Workers : workerPc[w] # "handling"
             /\ wq.shuttingDown]_vars

\* C10 as stated: a panic raised by a handler while events of other keys wait
\* behind it does not end the control loop.
C10_PanicIsolated ==
    [][\A w \in Workers :
          (/\ workerPc[w] = "handling"
           /\ \E x \in QueueItems(wq) : x.key # cur[w].key)
          => procState' # "crashed"]_vars

\* C10 as amended: a pass whose handler had a failed API call, or whose cache
\* lookup failed, ends like any other: the process keeps running, the worker
\* is ready for the next item, the item is no longer marked as processed, and
\* everything that was queued behind it is still queued, in the same order.
C10_FailureIsolated ==
    [][\A w \in Workers :
          (/\ workerPc[w] \in {"got", "handling"}
           /\ outcome'[w] # outcome[w]
           /\ outcome'[w].res \in {"apiFail", "lookupErr"})
          => /\ procState' = "running"
             /\ workerPc'[w] = "idle"
             /\ cur[w] \notin wq'.processing
             /\ Len(wq'.queue) >= Len(wq.queue)
             /\ SubSeq(wq'.queue, 1, Len(wq.queue)) = wq.queue]_vars

\* After a pass for one key ended with a failed API call, the handler runs
\* for an event of another key.
C10_Witness ==
    \E w \in Workers :
        /\ workerPc[w] = "handling"
        /\ outcome[w].res = "apiFail"
        /\ outcome[w].item.key # call[w].key

\* The lookups of the current invocation that were given an address of the
\* kind.
LookupsOf(kind) == {i \in 1..Len(geoLookups) : geoLookups[i].kind = kind}

ExternalLocated ==
    \E i \in LookupsOf("external") : geoLookups[i].ok

\* C11: in SetNodeGeolocation, when the node has an external IP and the
\* lookup by it succeeds, no lookup by the internal IP is made in that
\* invocation (at no point of it, up to its return).
C11_NoInternalAfterExternal ==
    (geoNode.externalIP # "" /\ ExternalLocated) => LookupsOf("internal") = {}

\* An invocation for a node with both addresses has returned after the
\* lookup by the external address located the node.
C11_Witness ==
    /\ geoPc = "returned"
    /\ geoNode.externalIP # "" /\ geoNode.internalIP # ""
    /\ geoLookups = <<Lookup("external", geoNode.externalIP, TRUE)>>

\* C12: in SetNodeGeolocation, when the external IP is absent or the lookup
\* by it fails, and the node has an internal IP, exactly one lookup by the
\* internal IP is made, and it comes after the external attempt: whenever
\* the node has an external IP, the first lookup is the one by that IP.
C12_InternalFallback ==
    /\ (geoPc = "returned" /\ geoNode.internalIP # "" /\ ~ExternalLocated)
         => /\ Cardinality(LookupsOf("internal")) = 1
            /\ geoLookups[Len(geoLookups)]
                 = [kind |-> "internal", ip |-> geoNode.internalIP,
                    ok |-> geoLookups[Len(geoLookups)].ok]
            /\ geoNode.externalIP # ""
                 => /\ Len(geoLookups) = 2
                    /\ geoLookups[1]
                         = Lookup("external", geoNode.externalIP, FALSE)
    /\ (geoNode.externalIP # "" /\ geoLookups # <<>>)
         => geoLookups[1].kind = "external"
    /\ \A i \in LookupsOf("internal"), j \in LookupsOf("external") : j < i

\* An invocation has returned after the lookup by the external address
\* failed and the lookup by the internal address was made.
C12_Witness ==
    /\ geoPc = "returned"
    /\ Len(geoLookups) = 2
    /\ geoLookups[1] = Lookup("external", geoNode.externalIP, FALSE)
    /\ geoLookups[2].kind = "internal"

\* C13: an invocation of SetNodeGeolocation makes at most one lookup per
\* address of the node (at most two in all) and does not repeat a failed
\* lookup; a node without addresses gets no lookup; when both lookups fail
\* the invocation returns normally and the node is located no better than
\* before.
C13_NoInternalRetry ==
    /\ [](/\ Cardinality(LookupsOf("external")) <= 1
          /\ Cardinality(LookupsOf("internal")) <= 1
          /\ Len(geoLookups) <= 2
          /\ (geoNode.externalIP = "" /\ geoNode.internalIP = "")
               => geoLookups = <<>>
          /\ (geoPc # "idle" /\ \A i \in 1..Len(geoLookups) : ~geoLookups[i].ok)
               => geoLabel[geoNode.name] = geoBefore)
    /\ [][(geoPc = "internal" /\ geoPc' # "internal")
             => geoPc' = "returned"]_vars

\* Both lookups of an invocation failed and it has returned.
C13_Witness ==
    /\ geoPc = "returned"
    /\ Len(geoLookups) = 2
    /\ ~geoLookups[1].ok /\ ~geoLookups[2].ok
    /\ geoLabel[geoNode.name] = geoBefore

\* The Update of the current invocation failed because obj was stale.
StaleUpdateFailed == teamLocals.updateFailed /\ teamRetry = "due"

\* C14: a handler write based on a cached object that a concurrent write
\* made stale fails without overwriting that write (the API server applies
\* an Update only with the current resourceVersion); after it the handler
\* does not go on with the failed write's result (teamCopy is still the team
\* it was called for, and no later request is built from that result); and
\* the write is made again when the next event for the team is handled with
\* a current object.
C14_StaleWriteRetried ==
    /\ StaleUpdateFailed =>
          /\ teamCopy.name = TeamName /\ teamCopy.ns = TeamNamespace
          /\ \A i \in 1..Len(teamReqs) : ~teamReqs[i].fromFailed
    /\ teamRetry # "missed"
    /\ \A i \in 1..Len(teamReqs) :
          (teamReqs[i].op = "Update" /\ teamReqs[i].applied)
             => ~teamLocals.updateFailed

\* The current or latest invocation is ObjectUpdated for a team whose
\* Status.Enabled is true, under an enabled authority, with no flag of the
\* change summary set.
UpdatedWithoutChange ==
    /\ teamLocals.fn = "ObjectUpdated"
    /\ teamLocals.authEnabled
    /\ teamCopy.enabled
    /\ ~teamLocals.updated.users /\ ~teamLocals.updated.enabled

\* C20: ObjectUpdated for a team whose owner authority is enabled and whose
\* Status.Enabled is true, with neither flag of the change summary set,
\* returns at once and writes nothing: it sends no write request when it
\* read the authority, and in no case does a request of it change the role
\* bindings, the owner references or the team.
C20_NoWriteWithoutChange ==
    UpdatedWithoutChange =>
       /\ teamPc = "idle"
       /\ teamLocals.readsOk => teamReqs = <<>>
       /\ \A i \in 1..Len(teamReqs) : ~teamReqs[i].applied

\* Such an invocation has returned, for a team that has owner references.
C20_Witness ==
    /\ UpdatedWithoutChange
    /\ teamLocals.readsOk
    /\ teamPc = "idle"
    /\ teamReqs = <<>>
    /\ srvTeam.owners # <<>>
    /\ srvTeam.enabled

\* The known nodes that match a clause's value.
MatchSet(clause) ==
    {n \in selInventory : Matches("City", clause.value, selGeo[n])}

Min(a, b) == IF a < b THEN a ELSE b

\* A pass has been made and nothing has changed since: selCands and
\* selTarget are the selection for the present nodes and clauses.
PassDone == nSelPasses > 0 /\ ~selChanged

\* C15: a clause with operator In and count c > 0 contributes exactly
\* min(c, number of matching nodes) nodes, all of them matching, to the
\* target set; and a pass repeated with the nodes and the clauses unchanged,
\* in whatever order the nodes are listed, gives the same target nodes in
\* the same order.
C15_CappedIn ==
    /\ PassDone =>
          \A i \in 1..Len(selClauses) :
             (selClauses[i].operator = "In" /\ selClauses[i].count > 0) =>
                /\ Len(selCands[i])
                     = Min(selClauses[i].count,
                           Cardinality(MatchSet(selClauses[i])))
                /\ Cardinality(Range(selCands[i])) = Len(selCands[i])
                /\ Range(selCands[i]) \subseteq MatchSet(selClauses[i])
                /\ Range(selCands[i]) \subseteq Range(selTarget)
    /\ selRepeat => selTarget = selPrevTarget

\* A repeated pass with a clause In whose count is below the number of
\* matching nodes.
C15_Witness ==
    /\ PassDone /\ selRepeat
    /\ \E i \in 1..Len(selClauses) :
          /\ selClauses[i].operator = "In"
          /\ selClauses[i].count > 0
          /\ selClauses[i].count < Cardinality(MatchSet(selClauses[i]))
          /\ Len(selCands[i]) = selClauses[i].count

\* C16: the candidates of a clause with count = 0 are all the nodes of its
\* match set (In) or of the complement of its match set (NotIn).
C16_UnlimitedCount ==
    PassDone =>
       \A i \in 1..Len(selClauses) :
          selClauses[i].count = 0 =>
             Range(selCands[i])
               = IF selClauses[i].operator = "In"
                 THEN MatchSet(selClauses[i])
                 ELSE selInventory \ MatchSet(selClauses[i])

\* A pass with a clause of count 0 that has several candidates.
C16_Witness ==
    /\ PassDone
    /\ \E i \in 1..Len(selClauses) :
          /\ selClauses[i].count = 0
          /\ selClauses[i].operator = "In"
          /\ Len(selCands[i]) >= 2

\* C17: the candidates of a clause with operator NotIn are the known nodes
\* that do not match its value, capped by count when count > 0; no matching
\* node is selected by that clause.
C17_NotInComplement ==
    PassDone =>
       \A i \in 1..Len(selClauses) :
          selClauses[i].operator = "NotIn" =>
             LET others == selInventory \ MatchSet(selClauses[i])
             IN /\ Range(selCands[i]) \subseteq others
                /\ Range(selCands[i]) \cap MatchSet(selClauses[i]) = {}
                /\ Cardinality(Range(selCands[i])) = Len(selCands[i])
                /\ Len(selCands[i])
                     = IF selClauses[i].count > 0
                       THEN Min(selClauses[i].count, Cardinality(others))
                       ELSE Cardinality(others)

\* A pass with a clause NotIn whose value some node matches and whose count
\* is below the number of the other nodes.
C17_Witness ==
    /\ PassDone
    /\ \E i \in 1..Len(selClauses) :
          /\ selClauses[i].operator = "NotIn"
          /\ MatchSet(selClauses[i]) # {}
          /\ selClauses[i].count > 0
          /\ selClauses[i].count
               < Cardinality(selInventory \ MatchSet(selClauses[i]))
          /\ Len(selCands[i]) = selClauses[i].count

\* C18: the target node set is the union, without duplicates, of the
\* candidates that each clause selects on its own; no candidate of a clause
\* is missing from it because of another clause.
C18_UnionOfClauses ==
    PassDone =>
       /\ Range(selTarget)
            = UNION {Range(selCands[i]) : i \in 1..Len(selCands)}
       /\ Cardinality(Range(selTarget)) = Len(selTarget)
       /\ Len(selCands) = Len(selClauses)
       /\ \A i \in 1..Len(selClauses), l \in Listings(selInventory) :
             selCands[i] = Select(l, selGeo, <<selClauses[i]>>).target

\* A pass with two clauses whose candidates overlap and of which the second
\* adds nodes.
C18_Witness ==
    /\ PassDone
    /\ Len(selClauses) = 2
    /\ Range(selCands[1]) \cap Range(selCands[2]) # {}
    /\ Len(selTarget) > Len(selCands[1])

\* C19: a pass made with the node inventory, the geolocations and the
\* clauses unchanged since the pass before writes no target controller.
C19_SecondPassNoWrite ==
    selRepeat =>
       /\ selWrites = {}
       /\ \A c \in selExisting : selStatus[c] = "NoopAlreadyCurrent"
       /\ \A c \in selExisting : selStored[c] = selTarget

\* A second pass without change, after a pass that pinned the existing
\* target controllers to several nodes.
C19_Witness ==
    /\ selRepeat
    /\ selWrites = {}
    /\ Len(selTarget) >= 2
    /\ selExisting = TargetControllers
    /\ \A c \in selExisting : selStored[c] = selTarget

\* The current or latest invocation is ObjectCreated, with the authority
\* read and enabled, for a team whose child namespace existed already.
CreatedAgain ==
    /\ teamLocals.fn = "ObjectCreated"
    /\ teamLocals.readsOk /\ teamLocals.authEnabled
    /\ teamLocals.childExisted

\* C21: a create event that is delivered again for a team that has been set
\* up changes nothing: no request of that invocation of ObjectCreated is
\* applied to the team, to its owner references or to its Status.Enabled.
C21_RedeliveryChangesNothing ==
    CreatedAgain => \A i \in 1..Len(teamReqs) : ~teamReqs[i].applied

\* The labels and the owner reference of the child namespace of the team
\* authority-a/t1.
ChildNamespace ==
    [name |-> ChildNamespaceStr(TeamNamespace, TeamName),
     owners |-> <<[kind |-> "Team", name |-> TeamName, controller |-> FALSE]>>,
     labels |-> [owner |-> "team", ownerName |-> TeamName,
                 authorityName |-> AuthorityName]]

\* C22: when ObjectCreated has handled a team of generation 1 under an
\* enabled authority that was not yet set up, and the API server was able to
\* serve its requests, then at its return the child namespace
\* '<team namespace>-team-<team name>' exists with the labels owner,
\* owner-name and authority-name, owned by the team alone, and the team's
\* Status.Enabled is true.
C22_SetUpResult ==
    [][(/\ teamPc = "created.deferred" /\ teamPc' = "idle"
        /\ ~teamLocals.childExisted
        /\ ~teamLocals'.apiFailed)
         => /\ ChildNamespace \in srvNamespaces'
            /\ srvTeam'.enabled]_vars

\* C23: whenever ObjectCreated or ObjectUpdated handles a team while its
\* owner authority, which the handler could read, is not enabled, the team
\* is deleted from the namespace it lives in, and no child namespace and no
\* role binding is created.
C23_DisabledAuthorityDeletes ==
    [][(/\ teamPc = "idle" /\ nTeamCalls' = nTeamCalls + 1
        /\ teamLocals'.fn \in {"ObjectCreated", "ObjectUpdated"}
        /\ teamLocals'.readsOk /\ ~teamLocals'.authEnabled
        /\ srvTeam # ZeroTeam)
         => /\ teamPc' = "idle"
            /\ srvTeam' = ZeroTeam
            /\ srvNamespaces' = srvNamespaces
            /\ srvRoleBindings' \subseteq srvRoleBindings]_vars

AdminOrManager == {"admin", "Admin", "ADMIN", "manager", "Manager", "MANAGER"}

\* The users that are entitled to a role binding in the child namespace of
\* a team with these participants: the participants that are Active and
\* have accepted the AUP, and the users of the authority that are Active,
\* have accepted the AUP and hold the role admin or manager.
Entitled(users) ==
    {u \in UserNames :
        /\ UserDB[u].active /\ UserDB[u].aup
        /\ \/ \E i \in 1..Len(users) : users[i] = u
           \/ \E i \in 1..Len(UserDB[u].roles) :
                 UserDB[u].roles[i] \in AdminOrManager}

\* The current or latest invocation is ObjectUpdated, it has rebuilt the
\* role bindings, and the team's child namespace exists.
Rebuilt ==
    /\ teamLocals.fn = "ObjectUpdated"
    /\ \E i \in 1..Len(teamReqs) : teamReqs[i].op = "CreateRoleBindings"
    /\ ChildNamespace \in srvNamespaces

OwnersFor(users) ==
    LET idx == {i \in 1..Len(users) :
                   /\ users[i] \in UserNames
                   /\ UserDB[users[i]].active /\ UserDB[users[i]].aup}
        nth(j) == CHOOSE i \in idx : Cardinality({k \in idx : k <= i}) = j
    IN [j \in 1..Cardinality(idx) |->
          [kind |-> "User", name |-> users[nth(j)], controller |-> FALSE]]

\* C26: the owner references that the team handler sends in an Update, and
\* those that an Update of it stores, are one reference per participant of
\* Spec.Users that can be read and is Active with the AUP accepted, in the
\* order of Spec.Users, each with Controller false; and every child
\* namespace has one owner reference, to the team, with Controller false.
C26_OwnerReferences ==
    /\ [](teamPc = "created.update" =>
             teamCopy.owners = OwnersFor(teamCopy.users))
    /\ [](\A n \in srvNamespaces :
             n.owners = <<[kind |-> "Team", name |-> TeamName,
                           controller |-> FALSE]>>)
    /\ [][/\ (teamPc = "updated.update" /\ teamPc' = "idle")
              => teamCopy'.owners = OwnersFor(teamCopy'.users)
          /\ (srvTeam'.owners # srvTeam.owners /\ srvTeam' # ZeroTeam)
              => srvTeam'.owners = OwnersFor(srvTeam'.users)]_vars

\* The team with the participants carol, bob (AUP not accepted) and alice
\* is owned by carol and alice, in this order, and its child namespace
\* exists.
C26_Witness ==
    /\ srvTeam.users = <<"carol", "bob", "alice">>
    /\ Len(srvTeam.owners) = 2
    /\ srvTeam.owners[1].name = "carol" /\ srvTeam.owners[2].name = "alice"
    /\ ChildNamespace \in srvNamespaces
    /\ teamLocals.fn = "ObjectCreated" /\ teamPc = "idle"

\* A request that deletes the team, slices or role bindings.
Destructive(req) == req.op \in {"Delete", "DeleteSlices", "DeleteRoleBindings"}

\* C29: when the read of the team's owner namespace or of its owner
\* authority fails while ObjectCreated or ObjectUpdated handles an event, no
\* request of that invocation deletes the team, its slices or its role
\* bindings.
C29_FailedReadNotDestructive ==
    (teamLocals.fn \in {"ObjectCreated", "ObjectUpdated"} /\ ~teamLocals.readsOk)
       => \A i \in 1..Len(teamReqs) :
             Destructive(teamReqs[i]) => ~teamReqs[i].applied

\* Nothing is left to do for the team controller: no version of the team is
\* on its way to the informer, the work queue is empty and the worker waits
\* for an item.
EngineQuiet ==
    /\ teamWatch = <<>>
    /\ teamWq.queue = <<>> /\ teamWq.dirty = {}
    /\ teamCur = ZeroEvent
    /\ teamPc = "idle"

\* C27: once nobody else writes the team any more, the handler's own writes
\* (Update of the owner references, UpdateStatus) cause only finitely many
\* further events: the work queue becomes empty and stays empty.
C27_Quiescence == <>[]EngineQuiet

\* The team has been created and set up, the events of the handler's own
\* writes have been handled, and nothing is left to do.
C27_Witness ==
    /\ EngineQuiet
    /\ nExternal = 1
    /\ nTeamCalls = 3
    /\ srvTeam.enabled /\ srvTeam.owners # <<>>
    /\ teamCache = srvTeam

\* The team exists and is set up: its child namespace exists and its
\* Status.Enabled is true.
TeamSetUp == ChildNamespace \in srvNamespaces /\ srvTeam.enabled

\* While ObjectCreated sets a team up, the version of the team it holds is
\* the one the API server holds: none of its writes is refused as stale.
SetUpCurrent ==
    teamPc \in {"created.update", "created.namespace", "created.deferred"}
       => teamCopy.rv = srvTeam.rv

\* C28: a team that is created in the namespace of an enabled authority is
\* eventually set up, in every interleaving of the events, also when its
\* spec is updated, or further events for it are queued, before its create
\* event is dispatched.  (Stated for the behaviours in which no write of
\* ObjectCreated is refused as stale.)
C28_EventuallySetUp == ([]SetUpCurrent) => ((srvTeam # ZeroTeam) ~> TeamSetUp)

=============================================================================
